---- MODULE Spec2Model ----
(***************************************************************************)
(* The SS58 address codec of the superburn command-line tools:             *)
(*   tools/h160_to_ss58.py, tools/generate_h160_keypair.py  (Encode)       *)
(*   tools/register_neuron_minimal.py, tools/register_neuron.py (Decode)   *)
(*                                                                         *)
(* Representation.                                                         *)
(*   str    a sequence of one-character strings                            *)
(*   bytes  a sequence of integers in 0..255                               *)
(*   int    Python's unbounded int, kept as its digits in base 2^24, least  *)
(*          significant first, without high zero digits (0 is << >>)       *)
(***************************************************************************)
EXTENDS Integers, Sequences, FiniteSets

\* ------------------------------------------------------------------------
\* Python built-ins used by the codec
\* ------------------------------------------------------------------------

RECURSIVE Repeat(_, _)
\* x * n for a one-element str or bytes x
Repeat(x, n) == IF n <= 0 THEN << >> ELSE x \o Repeat(x, n - 1)

Reverse(s) == [i \in 1..Len(s) |-> s[Len(s) + 1 - i]]

\* the base of an int's digits: 2^24, three bytes a digit
LIMB == 16777216

RECURSIVE Normalize(_)
\* drop the high zero digits of an int
Normalize(limbs) ==
    IF limbs = << >> THEN << >>
    ELSE IF limbs[Len(limbs)] = 0 THEN Normalize(SubSeq(limbs, 1, Len(limbs) - 1))
    ELSE limbs

\* the byte of weight 256^j (j >= 0) of an int
ByteOfInt(num, j) ==
    IF j \div 3 + 1 > Len(num) THEN 0
    ELSE LET limb == num[j \div 3 + 1]
         IN  IF j % 3 = 0 THEN limb % 256
             ELSE IF j % 3 = 1 THEN (limb \div 256) % 256
             ELSE limb \div 65536

\* int.from_bytes(data, "big")
IntFromBytesBig(data) ==
    LET n == Len(data)
        ByteAt(j) == IF j < n THEN data[n - j] ELSE 0    \* the byte of weight 256^j
    IN  Normalize([k \in 1..((n + 2) \div 3) |->
                      ByteAt(3 * k - 3) + 256 * ByteAt(3 * k - 2) + 65536 * ByteAt(3 * k - 1)])

RECURSIVE DivLoop(_, _, _)
\* long division of the digits st.i .. 1 by d, most significant first;
\* st holds the loop's variables
DivLoop(limbs, d, st) ==
    IF st.i = 0 THEN [q |-> Normalize(Reverse(st.quot)), r |-> st.rem]
    ELSE LET cur == st.rem * LIMB + limbs[st.i]
         IN  DivLoop(limbs, d, [i |-> st.i - 1, rem |-> cur % d,
                                quot |-> Append(st.quot, cur \div d)])

\* divmod(num, d) for a small d
DivMod(num, d) == DivLoop(num, d, [i |-> Len(num), rem |-> 0, quot |-> << >>])

RECURSIVE MulAddLoop(_, _, _)
\* digit by digit limbs * m + st.carry, least significant first
MulAddLoop(limbs, m, st) ==
    IF st.i > Len(limbs)
    THEN IF st.carry = 0 THEN st.acc ELSE Append(st.acc, st.carry)
    ELSE IF m = 1 /\ st.carry = 0
    THEN st.acc \o SubSeq(limbs, st.i, Len(limbs))
    ELSE LET cur == limbs[st.i] * m + st.carry
         IN  MulAddLoop(limbs, m, [i |-> st.i + 1, carry |-> cur \div LIMB,
                                   acc |-> Append(st.acc, cur % LIMB)])

\* num * m for a small m
IntMul(num, m) == Normalize(MulAddLoop(num, m, [i |-> 1, carry |-> 0, acc |-> << >>]))

\* num + a for a small a
IntAdd(num, a) == Normalize(MulAddLoop(num, 1, [i |-> 1, carry |-> a, acc |-> << >>]))

RECURSIVE BitsOf(_)
BitsOf(n) == IF n = 0 THEN 0 ELSE 1 + BitsOf(n \div 2)

\* num.bit_length()
BitLength(num) ==
    IF num = << >> THEN 0 ELSE 24 * (Len(num) - 1) + BitsOf(num[Len(num)])

\* num.to_bytes(length, byteorder="big"), for a length that holds num
IntToBytesBig(num, length) == [i \in 1..length |-> ByteOfInt(num, length - i)]

UPPERCASE ==
    << "A", "B", "C", "D", "E", "F", "G", "H", "I", "J", "K", "L", "M",
       "N", "O", "P", "Q", "R", "S", "T", "U", "V", "W", "X", "Y", "Z" >>

LOWERCASE ==
    << "a", "b", "c", "d", "e", "f", "g", "h", "i", "j", "k", "l", "m",
       "n", "o", "p", "q", "r", "s", "t", "u", "v", "w", "x", "y", "z" >>

LowerChar(c) ==
    IF \E i \in 1..26 : UPPERCASE[i] = c
    THEN LOWERCASE[CHOOSE i \in 1..26 : UPPERCASE[i] = c]
    ELSE c

\* s.lower()
StrLower(s) == [i \in 1..Len(s) |-> LowerChar(s[i])]

\* s.removeprefix(prefix)
RemovePrefix(s, prefix) ==
    IF Len(s) >= Len(prefix) /\ SubSeq(s, 1, Len(prefix)) = prefix
    THEN SubSeq(s, Len(prefix) + 1, Len(s))
    ELSE s

\* s[n:] for n >= 0
SliceFrom(s, n) == SubSeq(s, n + 1, Len(s))

HEXDIGITS ==
    << "0", "1", "2", "3", "4", "5", "6", "7", "8", "9",
       "a", "b", "c", "d", "e", "f" >>

IsHexDigit(c) == \E i \in 1..16 : HEXDIGITS[i] = LowerChar(c)

HexValue(c) == (CHOOSE i \in 1..16 : HEXDIGITS[i] = LowerChar(c)) - 1

\* the ASCII whitespace bytes.fromhex skips between two bytes
IsSpace(c) == c \in {" ", "\t", "\n", "\r", "\f"}

RECURSIVE FromHexLoop(_, _)
\* bytes.fromhex: whitespace is skipped before a byte, then two hex digits
\* are needed; [ok |-> FALSE] stands for the ValueError
FromHexLoop(s, st) ==
    IF st.i > Len(s) THEN [ok |-> TRUE, bytes |-> st.out]
    ELSE IF IsSpace(s[st.i]) THEN FromHexLoop(s, [i |-> st.i + 1, out |-> st.out])
    ELSE IF st.i + 1 > Len(s) \/ ~IsHexDigit(s[st.i]) \/ ~IsHexDigit(s[st.i + 1])
         THEN [ok |-> FALSE, bytes |-> << >>]
    ELSE FromHexLoop(s, [i |-> st.i + 2,
                         out |-> Append(st.out, 16 * HexValue(s[st.i]) + HexValue(s[st.i + 1]))])

BytesFromHex(s) == FromHexLoop(s, [i |-> 1, out |-> << >>])

\* data.hex()
BytesHex(bytes) ==
    [i \in 1..(2 * Len(bytes)) |->
        IF i % 2 = 1 THEN HEXDIGITS[(bytes[(i + 1) \div 2] \div 16) + 1]
        ELSE HEXDIGITS[(bytes[i \div 2] % 16) + 1]]

\* ------------------------------------------------------------------------
\* hashlib.blake2b(data, digest_size=n).digest(), as a fixed function of the
\* bytes and the digest size: the bytes are absorbed into a 16-bit state
\* and the digest is expanded from it.  Its first two bytes determine the
\* state, so two inputs share a checksum only when their states collide.
\* ------------------------------------------------------------------------

RECURSIVE Absorb(_, _)
Absorb(data, st) ==
    IF st.i > Len(data) THEN st.h
    ELSE Absorb(data, [i |-> st.i + 1, h |-> (st.h * 251 + data[st.i] + 1) % 65521])

blake2b(data, digest_size) ==
    LET h == Absorb(data, [i |-> 1, h |-> digest_size])
        t == h \div 256
        s == h % 256
    IN  [i \in 1..digest_size |->
            IF i = 1 THEN t
            ELSE IF i = 2 THEN s
            ELSE (t * (i + 1) + s * (i + 2) + (IF i > 4 THEN (i - 4) * 17 ELSE 0)) % 256]

\* ------------------------------------------------------------------------
\* Base-58
\* ------------------------------------------------------------------------

BASE58_ALPHABET ==
    << "1", "2", "3", "4", "5", "6", "7", "8", "9",
       "A", "B", "C", "D", "E", "F", "G", "H", "J", "K", "L", "M", "N",
       "P", "Q", "R", "S", "T", "U", "V", "W", "X", "Y", "Z",
       "a", "b", "c", "d", "e", "f", "g", "h", "i", "j", "k", "m", "n",
       "o", "p", "q", "r", "s", "t", "u", "v", "w", "x", "y", "z" >>

\* the position of every character of the alphabet, counted from 0
ALPHABET_INDEX ==
    [char \in {BASE58_ALPHABET[i] : i \in 1..58} |->
        (CHOOSE i \in 1..58 : BASE58_ALPHABET[i] = char) - 1]

\* char in BASE58_ALPHABET
InAlphabet(char) == char \in DOMAIN ALPHABET_INDEX

\* BASE58_ALPHABET.index(char)
AlphabetIndex(char) == ALPHABET_INDEX[char]

RECURSIVE EncodeLoop(_)
\* while num > 0: num, rem = divmod(num, 58); encoded = ALPHABET[rem] + encoded
EncodeLoop(st) ==
    IF st.num = << >> THEN st.encoded
    ELSE LET dm == DivMod(st.num, 58)
         IN  EncodeLoop([num |-> dm.q,
                         encoded |-> <<BASE58_ALPHABET[dm.r + 1]>> \o st.encoded])

RECURSIVE CountLeading(_, _, _)
\* the number of leading elements of s equal to x, counted from position i
CountLeading(s, x, i) ==
    IF i <= Len(s) /\ s[i] = x THEN 1 + CountLeading(s, x, i + 1) ELSE 0

\* b58encode with "1" * data.count(0): every zero byte counted, not the
\* leading ones
b58encode_counts_every_zero(data) ==
    LET num      == IntFromBytesBig(data)
        encoded  == EncodeLoop([num |-> num, encoded |-> << >>])
        zeros    == Cardinality({i \in 1..Len(data) : data[i] = 0})
    IN  Repeat(<<"1">>, zeros) \o encoded

\* tools/h160_to_ss58.py
b58encode(data) ==
    LET num     == IntFromBytesBig(data)
        encoded == EncodeLoop([num |-> num, encoded |-> << >>])
        leading == CountLeading(data, 0, 1)
    IN  Repeat(<<"1">>, leading) \o encoded

\* tools/generate_h160_keypair.py carries its own copy of b58encode
keypair_b58encode(data) ==
    LET num     == IntFromBytesBig(data)
        encoded == EncodeLoop([num |-> num, encoded |-> << >>])
        leading == CountLeading(data, 0, 1)
    IN  Repeat(<<"1">>, leading) \o encoded

RECURSIVE DecodeLoop(_, _)
\* for char in data: num *= 58; raise ValueError if char is not in the
\* alphabet; num += ALPHABET.index(char)
DecodeLoop(data, st) ==
    IF st.i > Len(data) THEN [ok |-> TRUE, num |-> st.num]
    ELSE LET scaled == IntMul(st.num, 58)
         IN  IF ~InAlphabet(data[st.i]) THEN [ok |-> FALSE, num |-> scaled]
             ELSE DecodeLoop(data, [i |-> st.i + 1,
                                    num |-> IntAdd(scaled, AlphabetIndex(data[st.i]))])

\* b58decode without the leading zero bytes restored
b58decode_drops_leading(data) ==
    LET loop == DecodeLoop(data, [i |-> 1, num |-> << >>])
    IN  IF ~loop.ok THEN [ok |-> FALSE, bytes |-> << >>]
        ELSE [ok |-> TRUE,
              bytes |-> IntToBytesBig(loop.num, (BitLength(loop.num) + 7) \div 8)]

\* b58decode with num.to_bytes given at least one byte, so that zero is
\* written as one zero byte
b58decode_zero_as_one_byte(data) ==
    LET loop == DecodeLoop(data, [i |-> 1, num |-> << >>])
    IN  IF ~loop.ok THEN [ok |-> FALSE, bytes |-> << >>]
        ELSE LET size     == (BitLength(loop.num) + 7) \div 8
                 combined == IntToBytesBig(loop.num, IF size = 0 THEN 1 ELSE size)
                 leading  == CountLeading(data, "1", 1)
             IN  [ok |-> TRUE, bytes |-> Repeat(<<0>>, leading) \o combined]

\* tools/register_neuron_minimal.py; [ok |-> FALSE] stands for the ValueError
b58decode(data) ==
    LET loop == DecodeLoop(data, [i |-> 1, num |-> << >>])
    IN  IF ~loop.ok THEN [ok |-> FALSE, bytes |-> << >>]
        ELSE LET combined == IntToBytesBig(loop.num, (BitLength(loop.num) + 7) \div 8)
                 leading  == CountLeading(data, "1", 1)
             IN  [ok |-> TRUE, bytes |-> Repeat(<<0>>, leading) \o combined]

\* tools/register_neuron.py carries its own copy of b58decode
hotkey_b58decode(data) ==
    LET loop == DecodeLoop(data, [i |-> 1, num |-> << >>])
    IN  IF ~loop.ok THEN [ok |-> FALSE, bytes |-> << >>]
        ELSE LET combined == IntToBytesBig(loop.num, (BitLength(loop.num) + 7) \div 8)
                 leading  == CountLeading(data, "1", 1)
             IN  [ok |-> TRUE, bytes |-> Repeat(<<0>>, leading) \o combined]

\* ------------------------------------------------------------------------
\* Encode
\* ------------------------------------------------------------------------

TAG_EVM == <<101, 118, 109, 58>>                    \* b"evm:"
TAG_SS58PRE == <<83, 83, 53, 56, 80, 82, 69>>       \* b"SS58PRE"

\* ss58_format | 0b01000000
OrBit6(n) == IF (n \div 64) % 2 = 1 THEN n ELSE n + 64

\* the two prefix bytes written high byte first
Ss58Prefix_high_first(ss58_format) ==
    IF ss58_format < 64 THEN <<ss58_format>>
    ELSE LET f == OrBit6(ss58_format)
         IN  <<(f \div 256) % 256, f % 256>>

\* the prefix bytes of a non-negative ss58_format
Ss58Prefix(ss58_format) ==
    IF ss58_format < 64 THEN <<ss58_format>>
    ELSE LET f == OrBit6(ss58_format)
         IN  <<f % 256, (f \div 256) % 256>>

EncodeFailure(status) ==
    [status |-> status, value |-> << >>, addr_bytes |-> << >>, prefix |-> << >>,
     payload |-> << >>]

EncodeOk(value, addr_bytes, prefix, payload) ==
    [status |-> "ok", value |-> value, addr_bytes |-> addr_bytes, prefix |-> prefix,
     payload |-> payload]

\* tools/h160_to_ss58.py.  The outcome keeps the locals addr_bytes, prefix
\* and payload next to the returned string.
\*   "InvalidAddressLength"  SystemExit("H160 address must be 20 bytes ...")
\*   "ValueError"            raised by bytes.fromhex
h160_to_ss58(h160, ss58_format) ==
    LET body == RemovePrefix(StrLower(h160), <<"0", "x">>)
    IN  IF Len(body) # 40 THEN EncodeFailure("InvalidAddressLength")
        ELSE LET addr == BytesFromHex(body)
             IN  IF ~addr.ok THEN EncodeFailure("ValueError")
                 ELSE LET prefixed   == TAG_EVM \o addr.bytes
                          public_key == blake2b(prefixed, 32)
                          prefix     == Ss58Prefix(ss58_format)
                          payload    == prefix \o public_key
                          checksum   == SubSeq(blake2b(TAG_SS58PRE \o payload, 64), 1, 2)
                      IN  EncodeOk(b58encode(payload \o checksum), addr.bytes, prefix, payload)

\* tools/generate_h160_keypair.py: address[2:] is decoded unchecked
keypair_h160_to_ss58(address, ss58_format) ==
    LET addr == BytesFromHex(SliceFrom(address, 2))
    IN  IF ~addr.ok THEN EncodeFailure("ValueError")
        ELSE LET prefixed   == TAG_EVM \o addr.bytes
                 public_key == blake2b(prefixed, 32)
                 prefix     == Ss58Prefix(ss58_format)
                 payload    == prefix \o public_key
                 checksum   == SubSeq(blake2b(TAG_SS58PRE \o payload, 64), 1, 2)
             IN  EncodeOk(keypair_b58encode(payload \o checksum), addr.bytes, prefix, payload)

\* utils/address_converter.py, h160_to_ss58, imported by
\* tools/register_neuron_minimal.py: Encode as section 4.1 of the
\* specification gives it (20 address bytes, a format below 16384)
address_converter_h160_to_ss58(h160, ss58_format) ==
    LET addr == BytesFromHex(RemovePrefix(StrLower(h160), <<"0", "x">>))
    IN  IF ~addr.ok \/ Len(addr.bytes) # 20 THEN EncodeFailure("InvalidAddressLength")
        ELSE IF ss58_format >= 16384 THEN EncodeFailure("UnsupportedFormat")
        ELSE LET public_key == blake2b(TAG_EVM \o addr.bytes, 32)
                 prefix     == Ss58Prefix(ss58_format)
                 payload    == prefix \o public_key
                 checksum   == SubSeq(blake2b(TAG_SS58PRE \o payload, 64), 1, 2)
             IN  EncodeOk(b58encode(payload \o checksum), addr.bytes, prefix, payload)

\* ------------------------------------------------------------------------
\* Decode
\* ------------------------------------------------------------------------

\* raise SystemExit(...) / ValueError: nothing is returned, nothing printed.
\*   "InvalidCharacter"      ValueError("Character ... is not valid base58")
\*   "TooShort"              "SS58 address too short"
\*   "UnsupportedFormat"     "Unsupported SS58 format (>=64)"
\*   "ChecksumMismatch"      "Invalid SS58 checksum"
\*   "InvalidPayloadLength"  "Expected 32-byte address, got ... bytes"
DecodeFailure(status) ==
    [status |-> status, returned |-> FALSE, pubkey |-> << >>, format_byte |-> -1,
     printed |-> << >>]

DecodeOk(format_byte, pubkey, printed) ==
    [status |-> "ok", returned |-> TRUE, pubkey |-> pubkey, format_byte |-> format_byte,
     printed |-> printed]

\* decode_ss58_address without the checksum comparison
decode_ss58_address_no_checksum(ss58) ==
    LET r       == b58decode(ss58)
        decoded == r.bytes
        n       == Len(decoded)
    IN  IF ~r.ok THEN DecodeFailure("InvalidCharacter")
        ELSE IF n < 34 THEN DecodeFailure("TooShort")
        ELSE IF decoded[1] >= 64 THEN DecodeFailure("UnsupportedFormat")
        ELSE LET pubkey   == SubSeq(decoded, 2, n - 2)
                 checksum == SubSeq(decoded, n - 1, n)
                 expected == SubSeq(blake2b(TAG_SS58PRE \o SubSeq(decoded, 1, n - 2), 64), 1, 2)
             IN  IF Len(pubkey) # 32 THEN DecodeFailure("InvalidPayloadLength")
                 ELSE DecodeOk(decoded[1], pubkey, << >>)

\* decode_ss58_address with the payload length checked before the checksum
decode_ss58_address_length_first(ss58) ==
    LET r       == b58decode(ss58)
        decoded == r.bytes
        n       == Len(decoded)
    IN  IF ~r.ok THEN DecodeFailure("InvalidCharacter")
        ELSE IF n < 34 THEN DecodeFailure("TooShort")
        ELSE IF decoded[1] >= 64 THEN DecodeFailure("UnsupportedFormat")
        ELSE LET pubkey   == SubSeq(decoded, 2, n - 2)
                 checksum == SubSeq(decoded, n - 1, n)
                 expected == SubSeq(blake2b(TAG_SS58PRE \o SubSeq(decoded, 1, n - 2), 64), 1, 2)
             IN  IF Len(pubkey) # 32 THEN DecodeFailure("InvalidPayloadLength")
                 ELSE IF checksum # expected THEN DecodeFailure("ChecksumMismatch")
                 ELSE DecodeOk(decoded[1], pubkey, << >>)

\* decode_ss58_address with the checksum compared before the format byte
decode_ss58_address_checksum_first(ss58) ==
    LET r       == b58decode(ss58)
        decoded == r.bytes
        n       == Len(decoded)
    IN  IF ~r.ok THEN DecodeFailure("InvalidCharacter")
        ELSE IF n < 34 THEN DecodeFailure("TooShort")
        ELSE LET pubkey   == SubSeq(decoded, 2, n - 2)
                 checksum == SubSeq(decoded, n - 1, n)
                 expected == SubSeq(blake2b(TAG_SS58PRE \o SubSeq(decoded, 1, n - 2), 64), 1, 2)
             IN  IF checksum # expected THEN DecodeFailure("ChecksumMismatch")
                 ELSE IF decoded[1] >= 64 THEN DecodeFailure("UnsupportedFormat")
                 ELSE IF Len(pubkey) # 32 THEN DecodeFailure("InvalidPayloadLength")
                 ELSE DecodeOk(decoded[1], pubkey, << >>)

\* decode_ss58_address with len(ss58), the text, compared with 34 in place
\* of len(decoded)
decode_ss58_address_text_length(ss58) ==
    LET r       == b58decode(ss58)
        decoded == r.bytes
        n       == Len(decoded)
    IN  IF ~r.ok THEN DecodeFailure("InvalidCharacter")
        ELSE IF Len(ss58) < 34 THEN DecodeFailure("TooShort")
        ELSE IF decoded[1] >= 64 THEN DecodeFailure("UnsupportedFormat")
        ELSE LET pubkey   == SubSeq(decoded, 2, n - 2)
                 checksum == SubSeq(decoded, n - 1, n)
                 expected == SubSeq(blake2b(TAG_SS58PRE \o SubSeq(decoded, 1, n - 2), 64), 1, 2)
             IN  IF checksum # expected THEN DecodeFailure("ChecksumMismatch")
                 ELSE IF Len(pubkey) # 32 THEN DecodeFailure("InvalidPayloadLength")
                 ELSE DecodeOk(decoded[1], pubkey, << >>)

\* decode_ss58_address with the text's length tested before it is decoded
decode_ss58_address_length_before_decoding(ss58) ==
    IF Len(ss58) < 34 THEN DecodeFailure("TooShort")
    ELSE
    LET r       == b58decode(ss58)
        decoded == r.bytes
        n       == Len(decoded)
    IN  IF ~r.ok THEN DecodeFailure("InvalidCharacter")
        ELSE IF n < 34 THEN DecodeFailure("TooShort")
        ELSE IF decoded[1] >= 64 THEN DecodeFailure("UnsupportedFormat")
        ELSE LET pubkey   == SubSeq(decoded, 2, n - 2)
                 checksum == SubSeq(decoded, n - 1, n)
                 expected == SubSeq(blake2b(TAG_SS58PRE \o SubSeq(decoded, 1, n - 2), 64), 1, 2)
             IN  IF checksum # expected THEN DecodeFailure("ChecksumMismatch")
                 ELSE IF Len(pubkey) # 32 THEN DecodeFailure("InvalidPayloadLength")
                 ELSE DecodeOk(decoded[1], pubkey, << >>)

\* tools/register_neuron_minimal.py
decode_ss58_address(ss58) ==
    LET r       == b58decode(ss58)
        decoded == r.bytes
        n       == Len(decoded)
    IN  IF ~r.ok THEN DecodeFailure("InvalidCharacter")
        ELSE IF n < 34 THEN DecodeFailure("TooShort")
        ELSE IF decoded[1] >= 64 THEN DecodeFailure("UnsupportedFormat")
        ELSE LET pubkey   == SubSeq(decoded, 2, n - 2)
                 checksum == SubSeq(decoded, n - 1, n)
                 expected == SubSeq(blake2b(TAG_SS58PRE \o SubSeq(decoded, 1, n - 2), 64), 1, 2)
             IN  IF checksum # expected THEN DecodeFailure("ChecksumMismatch")
                 ELSE IF Len(pubkey) # 32 THEN DecodeFailure("InvalidPayloadLength")
                 ELSE DecodeOk(decoded[1], pubkey, << >>)

\* tools/register_neuron.py: the same checks, and the decoded key is printed
decode_ss58_hotkey(ss58) ==
    LET r       == hotkey_b58decode(ss58)
        decoded == r.bytes
        n       == Len(decoded)
    IN  IF ~r.ok THEN DecodeFailure("InvalidCharacter")
        ELSE IF n < 34 THEN DecodeFailure("TooShort")
        ELSE IF decoded[1] >= 64 THEN DecodeFailure("UnsupportedFormat")
        ELSE LET pubkey   == SubSeq(decoded, 2, n - 2)
                 checksum == SubSeq(decoded, n - 1, n)
                 expected == SubSeq(blake2b(TAG_SS58PRE \o SubSeq(decoded, 1, n - 2), 64), 1, 2)
             IN  IF checksum # expected THEN DecodeFailure("ChecksumMismatch")
                 ELSE IF Len(pubkey) # 32 THEN DecodeFailure("InvalidPayloadLength")
                 ELSE DecodeOk(decoded[1], pubkey, <<BytesHex(pubkey)>>)

\* ------------------------------------------------------------------------
\* The inputs the calls are made on
\* ------------------------------------------------------------------------

MaxDataLen == 3       \* longest byte string given to b58encode on its own
MaxStrLen == 3        \* longest literal string given to the decoders
MaxRepeat == 48       \* longest one-character-repeated string given to them
MaxTamperPos == 1     \* leading positions at which an address is tampered

ByteValues == {0, 1, 57, 58, 255}

\* every short byte string over ByteValues, and 35-byte strings that start
\* with k zero bytes
ByteStrings ==
    UNION {[1..n -> ByteValues] : n \in 0..MaxDataLen}
    \cup { Repeat(<<0>>, k) \o Repeat(<<v>>, 35 - k) : k \in 0..MaxDataLen, v \in {1, 255} }

ZERO_ADDRESS == [i \in 1..20 |-> 0]
\* an address whose digest starts with one zero byte, one whose digest starts
\* with four, and one written with hex letters
ADDRESS_Z1 == <<0, 59>> \o [i \in 1..18 |-> 17]
ADDRESS_Z4 == <<180, 93>> \o [i \in 1..18 |-> 17]
ADDRESS_AB == [i \in 1..20 |-> 171]

WellFormedAddresses ==
    { <<"0", "x">> \o BytesHex(a) : a \in {ZERO_ADDRESS, ADDRESS_Z1, ADDRESS_Z4, ADDRESS_AB} }
    \cup { <<"0", "X">> \o Repeat(<<"A", "B">>, 20),
           <<"0", "x">> \o Repeat(<<"a", "B">>, 20) }

MalformedAddresses ==
    { << >>,
      <<"0", "x", "0", "0">>,
      <<"0", "x">> \o Repeat(<<"1", "1">>, 21),
      Repeat(<<"1", "1">>, 20),
      <<"0", "x">> \o Repeat(<<"0", "0">>, 19) \o <<" ", " ">>,
      <<"0", "x">> \o Repeat(<<"0", "0">>, 19) \o <<"0", "g">> }

Addresses == WellFormedAddresses \cup MalformedAddresses

Formats == {0, 1, 41, 42, 63, 64, 128, 192, 255, 256, 16383, 16384, 65600}

Encoders == {"h160_to_ss58", "generate_h160_keypair"}

Decoders == {"decode_ss58_address", "decode_ss58_hotkey"}

LiteralChars == {"1", "z", "0", "O", "I", "l"}

\* the text of the bytes p followed by their checksum
Checksummed(p) == b58encode(p \o SubSeq(blake2b(TAG_SS58PRE \o p, 64), 1, 2))

\* texts with a matching checksum around a payload of 31, 32 and 33 bytes
CraftedAddresses == { Checksummed(<<42>> \o Repeat(<<7>>, n)) : n \in {31, 32, 33} }

Literals ==
    UNION {[1..n -> LiteralChars] : n \in 0..MaxStrLen}
    \cup { Repeat(<<c>>, n) : c \in {"1", "A", "z"}, n \in 0..MaxRepeat }
    \cup CraftedAddresses

TamperChars == {"1", "2", "A", "z", "0"}

TamperPositions(s) == {p \in (1..MaxTamperPos) \cup {Len(s)} : 1 <= p /\ p <= Len(s)}

\* s with the character at position p replaced by c
Replaced(s, p, c) == [s EXCEPT ![p] = c]

\* ------------------------------------------------------------------------
\* Encode and Decode step by step.  A frame holds the locals of one call of
\* h160_to_ss58 (tools/h160_to_ss58.py) or of decode_ss58_address
\* (tools/register_neuron_minimal.py) and of the b58encode or b58decode it
\* calls; pc names the function and the line to execute next.  A step is
\* one line, or one iteration of a loop (its test and its body).  The only
\* name the functions read outside their frame is BASE58_ALPHABET.
\* ------------------------------------------------------------------------

MaxCalls == 2         \* calls a thread makes one after the other

Threads == {"t1", "t2"}

EncodeCall(address, format) ==
    [fn |-> "h160_to_ss58", h160 |-> address, ss58_format |-> format, ss58 |-> << >>]

DecodeCall(text) ==
    [fn |-> "decode_ss58_address", h160 |-> << >>, ss58_format |-> 0, ss58 |-> text]

NoCall == [fn |-> "none", h160 |-> << >>, ss58_format |-> 0, ss58 |-> << >>]

\* the address text whose digest starts with a zero byte
ADDRESS_Z1_TEXT == <<"0", "x">> \o BytesHex(ADDRESS_Z1)

\* the calls the threads choose from: an Encode that returns an address
\* with leading '1' characters, an Encode of a short address, a Decode of
\* the address the first one returns, and a Decode of a text with a
\* character outside the alphabet
ThreadCalls ==
    { EncodeCall(ADDRESS_Z1_TEXT, 0),
      EncodeCall(<<"0", "x", "0", "0">>, 42),
      DecodeCall(h160_to_ss58(ADDRESS_Z1_TEXT, 0).value),
      DecodeCall(<<"z", "1", "l">>) }

\* the frame of a thread that is in no call
NoFrame ==
    [call |-> NoCall, pc |-> "idle",
     h160 |-> << >>, ss58_format |-> 0, addr_bytes |-> << >>, prefixed |-> << >>,
     public_key |-> << >>, prefix |-> << >>, payload |-> << >>, checksum |-> << >>,
     data |-> << >>, num |-> << >>, encoded |-> << >>, combined |-> << >>,
     leading |-> 0, i |-> 0,
     ss58 |-> << >>, decoded |-> << >>, format_byte |-> -1, pubkey |-> << >>,
     expected |-> << >>,
     status |-> "none", value |-> << >>]

\* the frame of a call that starts: its parameters, and no other local
NewFrame(c) ==
    [NoFrame EXCEPT !.call = c,
                    !.pc = IF c.fn = "h160_to_ss58" THEN "h160_to_ss58:24"
                           ELSE "decode_ss58_address:38",
                    !.h160 = c.h160, !.ss58_format = c.ss58_format, !.ss58 = c.ss58]

\* the call ends by an exception
Raise(f, status) == [f EXCEPT !.pc = "done", !.status = status]

\* the call returns value
Return(f, value) == [f EXCEPT !.pc = "done", !.status = "ok", !.value = value]

\* h160_to_ss58, tools/h160_to_ss58.py lines 24-40
StepEncode(f) ==
    CASE f.pc = "h160_to_ss58:24" ->
            [f EXCEPT !.h160 = RemovePrefix(StrLower(f.h160), <<"0", "x">>),
                      !.pc = "h160_to_ss58:25"]
      [] f.pc = "h160_to_ss58:25" ->
            IF Len(f.h160) # 40 THEN Raise(f, "InvalidAddressLength")
            ELSE [f EXCEPT !.pc = "h160_to_ss58:27"]
      [] f.pc = "h160_to_ss58:27" ->
            LET addr == BytesFromHex(f.h160)
            IN  IF ~addr.ok THEN Raise(f, "ValueError")
                ELSE [f EXCEPT !.addr_bytes = addr.bytes, !.pc = "h160_to_ss58:28"]
      [] f.pc = "h160_to_ss58:28" ->
            [f EXCEPT !.prefixed = TAG_EVM \o f.addr_bytes, !.pc = "h160_to_ss58:29"]
      [] f.pc = "h160_to_ss58:29" ->
            [f EXCEPT !.public_key = blake2b(f.prefixed, 32), !.pc = "h160_to_ss58:31"]
      [] f.pc = "h160_to_ss58:31" ->
            [f EXCEPT !.pc = IF f.ss58_format < 64 THEN "h160_to_ss58:32"
                             ELSE "h160_to_ss58:34"]
      [] f.pc = "h160_to_ss58:32" ->
            [f EXCEPT !.prefix = <<f.ss58_format>>, !.pc = "h160_to_ss58:37"]
      [] f.pc = "h160_to_ss58:34" ->
            [f EXCEPT !.ss58_format = OrBit6(f.ss58_format), !.pc = "h160_to_ss58:35"]
      [] f.pc = "h160_to_ss58:35" ->
            [f EXCEPT !.prefix = <<f.ss58_format % 256, (f.ss58_format \div 256) % 256>>,
                      !.pc = "h160_to_ss58:37"]
      [] f.pc = "h160_to_ss58:37" ->
            [f EXCEPT !.payload = f.prefix \o f.public_key, !.pc = "h160_to_ss58:38"]
      [] f.pc = "h160_to_ss58:38" ->
            [f EXCEPT !.checksum = SubSeq(blake2b(TAG_SS58PRE \o f.payload, 64), 1, 2),
                      !.pc = "h160_to_ss58:40"]
      [] f.pc = "h160_to_ss58:40" ->
            [f EXCEPT !.data = f.payload \o f.checksum, !.pc = "b58encode:9"]
      [] f.pc = "b58encode:9" ->
            [f EXCEPT !.num = IntFromBytesBig(f.data), !.pc = "b58encode:10"]
      [] f.pc = "b58encode:10" ->
            [f EXCEPT !.encoded = << >>, !.pc = "b58encode:11"]
      [] f.pc = "b58encode:11" ->
            IF f.num = << >> THEN [f EXCEPT !.pc = "b58encode:14"]
            ELSE LET dm == DivMod(f.num, 58)
                 IN  [f EXCEPT !.num = dm.q,
                               !.encoded = <<BASE58_ALPHABET[dm.r + 1]>> \o f.encoded]
      [] f.pc = "b58encode:14" ->
            [f EXCEPT !.leading = 0, !.i = 1, !.pc = "b58encode:15"]
      [] f.pc = "b58encode:15" ->
            IF f.i <= Len(f.data) /\ f.data[f.i] = 0
            THEN [f EXCEPT !.leading = f.leading + 1, !.i = f.i + 1]
            ELSE [f EXCEPT !.pc = "b58encode:20"]
      [] f.pc = "b58encode:20" ->
            Return(f, Repeat(<<"1">>, f.leading) \o f.encoded)

\* decode_ss58_address and b58decode, tools/register_neuron_minimal.py
\* lines 21-34 and 38-51
StepDecode(f) ==
    CASE f.pc = "decode_ss58_address:38" ->
            [f EXCEPT !.data = f.ss58, !.pc = "b58decode:21"]
      [] f.pc = "b58decode:21" ->
            [f EXCEPT !.num = << >>, !.i = 1, !.pc = "b58decode:22"]
      [] f.pc = "b58decode:22" ->
            IF f.i > Len(f.data) THEN [f EXCEPT !.pc = "b58decode:28"]
            ELSE IF ~InAlphabet(f.data[f.i])
            THEN Raise([f EXCEPT !.num = IntMul(f.num, 58)], "InvalidCharacter")
            ELSE [f EXCEPT !.num = IntAdd(IntMul(f.num, 58), AlphabetIndex(f.data[f.i])),
                           !.i = f.i + 1]
      [] f.pc = "b58decode:28" ->
            [f EXCEPT !.combined = IntToBytesBig(f.num, (BitLength(f.num) + 7) \div 8),
                      !.pc = "b58decode:29"]
      [] f.pc = "b58decode:29" ->
            [f EXCEPT !.leading = 0, !.i = 1, !.pc = "b58decode:30"]
      [] f.pc = "b58decode:30" ->
            IF f.i <= Len(f.data) /\ f.data[f.i] = "1"
            THEN [f EXCEPT !.leading = f.leading + 1, !.i = f.i + 1]
            ELSE [f EXCEPT !.pc = "b58decode:35"]
      [] f.pc = "b58decode:35" ->
            [f EXCEPT !.decoded = Repeat(<<0>>, f.leading) \o f.combined,
                      !.pc = "decode_ss58_address:39"]
      [] f.pc = "decode_ss58_address:39" ->
            IF Len(f.decoded) < 34 THEN Raise(f, "TooShort")
            ELSE [f EXCEPT !.pc = "decode_ss58_address:41"]
      [] f.pc = "decode_ss58_address:41" ->
            [f EXCEPT !.format_byte = f.decoded[1], !.pc = "decode_ss58_address:42"]
      [] f.pc = "decode_ss58_address:42" ->
            IF f.format_byte >= 64 THEN Raise(f, "UnsupportedFormat")
            ELSE [f EXCEPT !.pc = "decode_ss58_address:44"]
      [] f.pc = "decode_ss58_address:44" ->
            [f EXCEPT !.pubkey = SubSeq(f.decoded, 2, Len(f.decoded) - 2),
                      !.pc = "decode_ss58_address:45"]
      [] f.pc = "decode_ss58_address:45" ->
            [f EXCEPT !.checksum = SubSeq(f.decoded, Len(f.decoded) - 1, Len(f.decoded)),
                      !.pc = "decode_ss58_address:46"]
      [] f.pc = "decode_ss58_address:46" ->
            [f EXCEPT !.expected =
                          SubSeq(blake2b(TAG_SS58PRE
                                         \o SubSeq(f.decoded, 1, Len(f.decoded) - 2), 64), 1, 2),
                      !.pc = "decode_ss58_address:47"]
      [] f.pc = "decode_ss58_address:47" ->
            IF f.checksum # f.expected THEN Raise(f, "ChecksumMismatch")
            ELSE [f EXCEPT !.pc = "decode_ss58_address:49"]
      [] f.pc = "decode_ss58_address:49" ->
            IF Len(f.pubkey) # 32 THEN Raise(f, "InvalidPayloadLength")
            ELSE [f EXCEPT !.pc = "decode_ss58_address:51"]
      [] f.pc = "decode_ss58_address:51" ->
            Return(f, f.pubkey)

\* the next line of the call
StepFrame(f) ==
    IF f.call.fn = "h160_to_ss58" THEN StepEncode(f) ELSE StepDecode(f)

\* leading kept in one place for all the calls, as a module-level counter
\* would be: the step of thread t writes it into every frame
StepThread_shared_leading(fs, t) ==
    [u \in DOMAIN fs |->
        IF u = t THEN StepFrame(fs[t])
        ELSE [fs[u] EXCEPT !.leading = StepFrame(fs[t]).leading]]

\* num kept in one place for all the calls, as a module-level name would
\* be: the step of thread t writes it into every frame
StepThread_shared_num(fs, t) ==
    [u \in DOMAIN fs |->
        IF u = t THEN StepFrame(fs[t])
        ELSE [fs[u] EXCEPT !.num = StepFrame(fs[t]).num]]

\* thread t executes the next line of its call, in its own frame
StepThread(fs, t) == [fs EXCEPT ![t] = StepFrame(fs[t])]

\* ------------------------------------------------------------------------
\* tools/register_neuron_minimal.py, main: the contract is prefunded through
\* the balance-transfer precompile, then burnedRegisterNeuron is called.
\* The record m holds main's locals; pc names the line to execute next.
\* --value-tao and --burn-tao are written in tenths of a wei, so that
\* int(tao * 10^18) is the amount divided by ten, truncated towards zero.
\* ------------------------------------------------------------------------

FUND_GAS_FALLBACK == 120000
REGISTER_GAS_FALLBACK == 200000
RECEIPT_ATTEMPTS == 20        \* for attempt in range(20)

\* int(tao * 1_000_000_000_000_000_000)
ToWei(tao) == IF tao >= 0 THEN tao \div 10 ELSE -((-tao) \div 10)

\* --value-tao: minus one wei, nothing, half a wei, one wei, two wei
TaoAmounts == {-10, 0, 5, 10, 20}

\* --burn-tao: omitted, or an amount
BurnArguments ==
    {[given |-> FALSE, amount |-> 0]}
    \cup {[given |-> TRUE, amount |-> a] : a \in TaoAmounts \cup {30}}

\* what w3.eth.get_transaction_count returns for the account
AccountNonces == {0, 7}

\* --ss58-format: the default, and one that gives a two-byte prefix
MirrorFormats == {42, 64}

\* what estimate_gas returns when it does not raise
EstimatedGas == {50000}

\* the status of a receipt: 1, 0, or -1 for a receipt without the field
ReceiptStatuses == {1, 0, -1}

NoTx == [to |-> "none", fn |-> "none", nonce |-> 0, value |-> 0, gas |-> 0, burn |-> 0]

NoReceipt == [received |-> FALSE, status |-> -1]

\* balance_precompile.functions.transfer(dest_pubkey).build_transaction
TransferTx(nonce, value, gas) ==
    [to |-> "PRECOMPILE_BALANCE_TRANSFER", fn |-> "transfer",
     nonce |-> nonce, value |-> value, gas |-> gas, burn |-> 0]

\* contract.functions.burnedRegisterNeuron(netuid, pubkey, burn_wei)
\* .build_transaction
BurnedRegisterTx(nonce, gas, burn_wei) ==
    [to |-> "contract", fn |-> "burnedRegisterNeuron",
     nonce |-> nonce, value |-> 0, gas |-> gas, burn |-> burn_wei]

\* main before it starts, with no argument
NoMain ==
    [pc |-> "idle", exit |-> "",
     value_tao |-> 0, burn_tao_arg |-> [given |-> FALSE, amount |-> 0],
     ss58_format |-> 0, contract |-> << >>, chain_nonce |-> 0,
     value_wei |-> 0, burn_tao |-> 0, burn_wei |-> 0, nonce |-> 0,
     contract_ss58 |-> << >>, dest_pubkey |-> << >>,
     fund_gas |-> 0, fund_tx |-> NoTx, fund_receipt |-> NoReceipt,
     fund_status |-> FALSE, balance_after_fund |-> 0, gas_limit |-> 0, tx |-> NoTx,
     receipt |-> NoReceipt, attempt |-> -1, code |-> 0,
     receipt_requests |-> 0, status_printed |-> ""]

\* the status_code of an HTTPError: 429, another one, or -1 for an error
\* without a response (code is None)
HttpErrorCodes == {429, 503, -1}

\* line 204, with every HTTP error retried
RetriesOn_any_http_error(code) == TRUE

\* line 204: if code == 429
RetriesOn(code) == code = 429

\* main ends by SystemExit(message), or by an exception of a library
Exit(m, message) == [m EXCEPT !.pc = "exit", !.exit = message]

\* fund_receipt.get("status") == 1, with any receipt that is not a
\* failure taken for a success
FundStatus_not_zero(fund_receipt) == fund_receipt.status # 0

\* fund_receipt.get("status") == 1
FundStatus(fund_receipt) == fund_receipt.status = 1

\* lines 103-109: the amounts in wei and their two tests
Amounts(m) ==
    LET value_wei == ToWei(m.value_tao)
        burn_tao  == IF m.burn_tao_arg.given THEN m.burn_tao_arg.amount ELSE m.value_tao
        burn_wei  == ToWei(burn_tao)
        n         == [m EXCEPT !.value_wei = value_wei, !.burn_tao = burn_tao,
                               !.burn_wei = burn_wei]
    IN  IF burn_wei = 0 THEN Exit(n, "Burn amount must be greater than zero")
        ELSE IF burn_wei > value_wei
        THEN Exit(n, "Burn amount cannot exceed total value prefunded")
        ELSE [n EXCEPT !.pc = "main:111"]

\* lines 115-117: the contract's SS58 mirror and its public key
Mirror(m) ==
    LET e == address_converter_h160_to_ss58(m.contract, m.ss58_format)
        d == decode_ss58_address(e.value)
    IN  IF e.status # "ok" THEN Exit(m, e.status)
        ELSE IF d.status # "ok" THEN Exit([m EXCEPT !.contract_ss58 = e.value], d.status)
        ELSE [m EXCEPT !.contract_ss58 = e.value, !.dest_pubkey = d.pubkey,
                       !.pc = "main:129"]

\* ------------------------------------------------------------------------
\* tools/unstake_and_burn.py, main: the stakes of the contract's coldkey are
\* read and unstakeAndBurn is called with them.  The record u holds main's
\* locals.  Balances, gas prices and costs are written in gwei (10^9 wei),
\* --force-gas-price-gwei in whole gwei, stake amounts in tenths of a rao.
\* ------------------------------------------------------------------------

UNSTAKE_GAS_FALLBACK == 8000000
UNSTAKE_GAS_PRICE_FALLBACK == 100      \* w3.to_wei(100, 'gwei')

\* int(a * 1_000_000_000)
ToRao(tao) == IF tao >= 0 THEN tao \div 10 ELSE -((-tao) \div 10)

\* int(gas_estimate * 1.2)
GasWithMargin(gas_estimate) == (gas_estimate * 12) \div 10

\* what w3.eth.get_balance returns: nothing, a thousandth of a TAO, one TAO
WalletBalances == {0, 1000000, 1000000000}

\* what w3.eth.gas_price returns
NodeGasPrices == {10, 10000}

\* --force-gas-price-gwei: omitted, zero, or 100 gwei
ForcedGasPrices ==
    {[given |-> FALSE, gwei |-> 0], [given |-> TRUE, gwei |-> 0],
     [given |-> TRUE, gwei |-> 100]}

\* what fn.estimate_gas returns when it does not raise
UnstakeGasEstimates == {100000}

\* what fetch_validator_stakes returns: no stake, one, or two
ValidatorStakes ==
    {[hotkeys |-> << >>, amounts |-> << >>],
     [hotkeys |-> <<"hotkey1">>, amounts |-> <<15>>],
     [hotkeys |-> <<"hotkey1", "hotkey2">>, amounts |-> <<15, 20>>]}

\* contract.functions.unstakeAndBurn(hotkeys_bytes32, netuid, amounts_rao)
\* .build_transaction
UnstakeAndBurnTx(hotkeys, amounts, nonce, gas, gasPrice) ==
    [to |-> "contract", fn |-> "unstakeAndBurn", hotkeys |-> hotkeys,
     amounts |-> amounts, nonce |-> nonce, value |-> 0, gas |-> gas,
     gasPrice |-> gasPrice]

NoUnstakeTx == UnstakeAndBurnTx(<< >>, << >>, 0, 0, 0)

\* main before it starts, with no argument
NoUnstake ==
    [pc |-> "idle", exit |-> "", contract |-> << >>,
     force_gas_price_gwei |-> [given |-> FALSE, gwei |-> 0],
     balance_wei |-> 0, derived_coldkey |-> << >>,
     hotkeys_bytes32 |-> << >>, amounts_tao |-> << >>, amounts_rao |-> << >>,
     gas_estimate |-> 0, gas_limit |-> 0, gas_price |-> 0, total_cost_wei |-> 0,
     nonce |-> 0, tx |-> NoUnstakeTx, submitted |-> FALSE]

\* lines 117-120: if balance_wei < total_cost_wei: sys.exit(1)
GasOrExit(u) ==
    IF u.balance_wei < u.total_cost_wei THEN Exit(u, "Insufficient funds")
    ELSE [u EXCEPT !.pc = "unstake:130"]

\* lines 98-115: the estimate with its margin, the forced price or the
\* node's, and their product
EstimatedGasCost(u, gas_estimate, node_gas_price) ==
    LET gas_limit == GasWithMargin(gas_estimate)
        gas_price == IF u.force_gas_price_gwei.given /\ u.force_gas_price_gwei.gwei # 0
                     THEN u.force_gas_price_gwei.gwei
                     ELSE node_gas_price
    IN  [u EXCEPT !.gas_estimate = gas_estimate, !.gas_limit = gas_limit,
                  !.gas_price = gas_price, !.total_cost_wei = gas_limit * gas_price]

\* lines 122-127: except Exception: the fallback gas limit and gas price
FallbackGas(u) ==
    [u EXCEPT !.gas_limit = UNSTAKE_GAS_FALLBACK,
              !.gas_price = UNSTAKE_GAS_PRICE_FALLBACK,
              !.pc = "unstake:130"]

\* ------------------------------------------------------------------------
\* tools/unstake_and_burn_batch.py, main: the hotkeys and amounts of the
\* command line go to removeStakeAndBurnBatch.  The record b holds main's
\* locals; i is the position of the for loop in args.hotkeys.  Amounts are
\* written in tenths of a rao, gas prices in gwei.
\* ------------------------------------------------------------------------

HOTKEY_BYTES == 32
BATCH_GAS_FALLBACK == 8000000

\* a --hotkeys argument: a prefix, then n times two characters, then a tail
HotkeyText(prefix, pair, n, tail) == prefix \o Repeat(pair, n) \o tail

\* --hotkeys arguments: 32 bytes in upper case after 0X, 32 bytes without
\* a prefix and each followed by a blank; 31 bytes, 33 bytes, and 31 bytes
\* and a digit
HotkeyArguments ==
    {HotkeyText(<<"0", "X">>, <<"C", "D">>, HOTKEY_BYTES, << >>),
     HotkeyText(<< >>, <<"1", "2", " ">>, HOTKEY_BYTES, << >>),
     HotkeyText(<<"0", "x">>, <<"a", "b">>, HOTKEY_BYTES - 1, << >>),
     HotkeyText(<<"0", "x">>, <<"a", "b">>, HOTKEY_BYTES + 1, << >>),
     HotkeyText(<<"0", "x">>, <<"a", "b">>, HOTKEY_BYTES - 1, <<"a">>)}

\* --amounts arguments: half a rao, two rao
AmountArguments == {5, 20}

\* the longest --hotkeys and --amounts lists
MaxBatch == 2

BatchLists(S) == UNION {[1..n -> S] : n \in 1..MaxBatch}

\* what fn.estimate_gas returns when it does not raise
BatchGasEstimates == {300000}

\* contract.functions.removeStakeAndBurnBatch(hotkeys_bytes32, netuid,
\* amounts_rao).build_transaction
RemoveStakeAndBurnBatchTx(hotkeys, amounts, nonce, gas, gasPrice) ==
    [to |-> "contract", fn |-> "removeStakeAndBurnBatch", hotkeys |-> hotkeys,
     amounts |-> amounts, nonce |-> nonce, value |-> 0, gas |-> gas,
     gasPrice |-> gasPrice]

NoBatchTx == RemoveStakeAndBurnBatchTx(<< >>, << >>, 0, 0, 0)

\* main before it starts, with no argument
NoBatch ==
    [pc |-> "idle", exit |-> "", hotkeys |-> << >>, amounts |-> << >>,
     i |-> 0, hotkeys_bytes32 |-> << >>, amounts_rao |-> << >>,
     gas_limit |-> 0, tx |-> NoBatchTx]

\* line 64 with any length accepted
HotkeyLengthOk_any(b) == TRUE

\* line 64: len(b) != 32 ends the run
HotkeyLengthOk(b) == Len(b) = HOTKEY_BYTES

\* lines 62-66: one pass of the loop over args.hotkeys
BatchHotkeyStep(b) ==
    LET h       == b.hotkeys[b.i]
        h_clean == RemovePrefix(StrLower(h), <<"0", "x">>)
        r       == BytesFromHex(h_clean)
    IN  IF ~r.ok THEN Exit(b, "ValueError")
        ELSE IF ~HotkeyLengthOk(r.bytes)
        THEN Exit(b, "Hotkey must be exactly 32 bytes")
        ELSE [b EXCEPT !.hotkeys_bytes32 = Append(b.hotkeys_bytes32, r.bytes),
                       !.i = b.i + 1]

\* lines 69-72: the two lengths, then the amounts in rao
BatchAmountsStep(b) ==
    IF Len(b.hotkeys) # Len(b.amounts)
    THEN Exit(b, "hotkeys[] and amounts[] must have the same length")
    ELSE [b EXCEPT !.amounts_rao = [k \in 1..Len(b.amounts) |-> ToRao(b.amounts[k])],
                   !.pc = "batch:75"]

\* ------------------------------------------------------------------------
\* The calls.  A run is one invocation: the base-58 pair on a byte string,
\* the base-58 pair on a text, an Encode whose result is then decoded (as it
\* is, or tampered with), or a Decode of a string given on the command line.
\* ------------------------------------------------------------------------

VARIABLES
    scenario,      \* "base58", "text", "encode" or "decode"
    pc,            \* "start", then "encoded", "decoded", "reencoded"
    data,          \* the bytes given to b58encode
    b58,           \* what b58encode returned
    back,          \* what b58decode returned for it
    encoder,       \* the Encode implementation called
    h160,          \* its address argument
    ss58_format,   \* its format argument
    enc,           \* its outcome
    decoder,       \* the Decode implementation called
    ss58,          \* its argument
    origin,        \* where ss58 comes from
    dec,           \* its outcome
    frames,        \* the frame of each thread's current call
    ncalls,        \* the number of calls each thread has made
    main,          \* the locals of register_neuron_minimal's main
    signed,        \* the transactions the tool has signed
    sent,          \* the transactions the node accepted from it, in order
    unstake,       \* the locals of unstake_and_burn's main
    batch          \* the locals of unstake_and_burn_batch's main

codecVars == <<scenario, pc, data, b58, back, encoder, h160, ss58_format, enc,
               decoder, ss58, origin, dec>>

threadVars == <<frames, ncalls>>

mainVars == <<main, signed, sent>>

toolVars == <<unstake, batch>>

vars == <<codecVars, threadVars, mainVars, toolVars>>

NoEncode == EncodeFailure("none")
NoDecode == DecodeFailure("none")
NoBack == [ok |-> FALSE, bytes |-> << >>]
NoOrigin == [kind |-> "none", pos |-> 0, char |-> ""]

RunEncoder(name, address, format) ==
    IF name = "h160_to_ss58" THEN h160_to_ss58(address, format)
    ELSE keypair_h160_to_ss58(address, format)

RunDecoder(name, s) ==
    IF name = "decode_ss58_address" THEN decode_ss58_address(s)
    ELSE decode_ss58_hotkey(s)

InitBase58 ==
    /\ scenario = "base58"
    /\ data \in ByteStrings
    /\ encoder = "none" /\ h160 = << >> /\ ss58_format = 0
    /\ decoder = "none" /\ ss58 = << >> /\ origin = NoOrigin

InitEncode ==
    /\ scenario = "encode"
    /\ data = << >>
    /\ encoder \in Encoders /\ h160 \in Addresses /\ ss58_format \in Formats
    /\ decoder = "none" /\ ss58 = << >> /\ origin = NoOrigin

InitDecode ==
    /\ scenario = "decode"
    /\ data = << >>
    /\ encoder = "none" /\ h160 = << >> /\ ss58_format = 0
    /\ decoder \in Decoders /\ ss58 \in Literals
    /\ origin = [kind |-> "literal", pos |-> 0, char |-> ""]

InitText ==
    /\ scenario = "text"
    /\ data = << >>
    /\ encoder = "none" /\ h160 = << >> /\ ss58_format = 0
    /\ decoder = "none" /\ ss58 \in Literals
    /\ origin = [kind |-> "literal", pos |-> 0, char |-> ""]

\* main is not run
NoMainRun == main = NoMain /\ signed = {} /\ sent = << >>

\* neither unstake tool is run
NoToolRun == unstake = NoUnstake /\ batch = NoBatch

\* no thread has made a call
NoThreads ==
    /\ frames = [t \in Threads |-> NoFrame]
    /\ ncalls = [t \in Threads |-> 0]

Init ==
    /\ pc = "start"
    /\ b58 = << >> /\ back = NoBack /\ enc = NoEncode /\ dec = NoDecode
    /\ (InitBase58 \/ InitText \/ InitEncode \/ InitDecode)
    /\ NoThreads
    /\ NoMainRun
    /\ NoToolRun

\* b58encode(data)
CallB58Encode ==
    /\ scenario = "base58" /\ pc = "start"
    /\ b58' = b58encode(data)
    /\ pc' = "encoded"
    /\ UNCHANGED <<scenario, data, back, encoder, h160, ss58_format, enc,
                   decoder, ss58, origin, dec>>
    /\ UNCHANGED <<threadVars, mainVars, toolVars>>

\* b58decode of what b58encode returned
CallB58Decode ==
    /\ scenario = "base58" /\ pc = "encoded"
    /\ back' = b58decode(b58)
    /\ pc' = "decoded"
    /\ UNCHANGED <<scenario, data, b58, encoder, h160, ss58_format, enc,
                   decoder, ss58, origin, dec>>
    /\ UNCHANGED <<threadVars, mainVars, toolVars>>

\* b58decode(ss58) of a text
CallB58DecodeText ==
    /\ scenario = "text" /\ pc = "start"
    /\ back' = b58decode(ss58)
    /\ pc' = "decoded"
    /\ UNCHANGED <<scenario, data, b58, encoder, h160, ss58_format, enc,
                   decoder, ss58, origin, dec>>
    /\ UNCHANGED <<threadVars, mainVars, toolVars>>

\* b58encode of the bytes b58decode returned for the text
CallB58EncodeBack ==
    /\ scenario = "text" /\ pc = "decoded" /\ back.ok
    /\ b58' = b58encode(back.bytes)
    /\ pc' = "reencoded"
    /\ UNCHANGED <<scenario, data, back, encoder, h160, ss58_format, enc,
                   decoder, ss58, origin, dec>>
    /\ UNCHANGED <<threadVars, mainVars, toolVars>>

\* h160_to_ss58(h160, ss58_format)
CallEncode ==
    /\ scenario = "encode" /\ pc = "start"
    /\ enc' = RunEncoder(encoder, h160, ss58_format)
    /\ pc' = "encoded"
    /\ UNCHANGED <<scenario, data, b58, back, encoder, h160, ss58_format,
                   decoder, ss58, origin, dec>>
    /\ UNCHANGED <<threadVars, mainVars, toolVars>>

\* the returned address is decoded (register_neuron_minimal.py, main)
DecodeEncoded ==
    /\ scenario = "encode" /\ pc = "encoded" /\ enc.status = "ok"
    /\ \E d \in Decoders :
        /\ decoder' = d
        /\ ss58' = enc.value
        /\ origin' = [kind |-> "encoded", pos |-> 0, char |-> ""]
        /\ dec' = RunDecoder(d, enc.value)
    /\ pc' = "decoded"
    /\ UNCHANGED <<scenario, data, b58, back, encoder, h160, ss58_format, enc>>
    /\ UNCHANGED <<threadVars, mainVars, toolVars>>

\* the returned address is decoded with one character replaced
DecodeTampered ==
    /\ scenario = "encode" /\ pc = "encoded" /\ enc.status = "ok"
    /\ \E d \in Decoders, p \in TamperPositions(enc.value), c \in TamperChars :
        /\ c # enc.value[p]
        /\ decoder' = d
        /\ ss58' = Replaced(enc.value, p, c)
        /\ origin' = [kind |-> "tampered", pos |-> p, char |-> c]
        /\ dec' = RunDecoder(d, Replaced(enc.value, p, c))
    /\ pc' = "decoded"
    /\ UNCHANGED <<scenario, data, b58, back, encoder, h160, ss58_format, enc>>
    /\ UNCHANGED <<threadVars, mainVars, toolVars>>

\* a string given on the command line is decoded
DecodeLiteral ==
    /\ scenario = "decode" /\ pc = "start"
    /\ dec' = RunDecoder(decoder, ss58)
    /\ pc' = "decoded"
    /\ UNCHANGED <<scenario, data, b58, back, encoder, h160, ss58_format, enc,
                   decoder, ss58, origin>>
    /\ UNCHANGED <<threadVars, mainVars, toolVars>>

Next ==
    \/ CallB58Encode
    \/ CallB58Decode
    \/ CallB58DecodeText
    \/ CallB58EncodeBack
    \/ CallEncode
    \/ DecodeEncoded
    \/ DecodeTampered
    \/ DecodeLiteral

Spec == Init /\ [][Next]_vars

\* ------------------------------------------------------------------------
\* Calls made by several threads, their lines interleaved
\* ------------------------------------------------------------------------

\* none of the single calls above is made
NoCodecRun ==
    /\ scenario = "none" /\ pc = "start"
    /\ data = << >> /\ b58 = << >> /\ back = NoBack
    /\ encoder = "none" /\ h160 = << >> /\ ss58_format = 0 /\ enc = NoEncode
    /\ decoder = "none" /\ ss58 = << >> /\ origin = NoOrigin /\ dec = NoDecode

InitThreads == NoCodecRun /\ NoThreads /\ NoMainRun /\ NoToolRun

\* thread t, in no call, calls h160_to_ss58 or decode_ss58_address
StartCall(t) ==
    /\ frames[t].pc \in {"idle", "done"}
    /\ ncalls[t] < MaxCalls
    /\ \E c \in ThreadCalls : frames' = [frames EXCEPT ![t] = NewFrame(c)]
    /\ ncalls' = [ncalls EXCEPT ![t] = ncalls[t] + 1]
    /\ UNCHANGED <<codecVars, mainVars, toolVars>>

\* thread t executes the next line of its call
StepCall(t) ==
    /\ frames[t].pc \notin {"idle", "done"}
    /\ frames' = StepThread(frames, t)
    /\ UNCHANGED <<ncalls, codecVars, mainVars, toolVars>>

NextThreads == \E t \in Threads : StartCall(t) \/ StepCall(t)

SpecThreads == InitThreads /\ [][NextThreads]_vars

\* ------------------------------------------------------------------------
\* One run of register_neuron_minimal.py
\* ------------------------------------------------------------------------

InitMain ==
    /\ NoCodecRun /\ NoThreads /\ NoToolRun
    /\ signed = {} /\ sent = << >>
    /\ \E v \in TaoAmounts, b \in BurnArguments, f \in MirrorFormats, n \in AccountNonces :
        main = [NoMain EXCEPT !.pc = "main:70", !.value_tao = v, !.burn_tao_arg = b,
                              !.ss58_format = f, !.chain_nonce = n,
                              !.contract = <<"0", "x">> \o BytesHex(ZERO_ADDRESS)]

\* lines 70-101: the arguments, the key, the connection and the ABI; any of
\* them missing ends the run
Setup ==
    /\ main.pc = "main:70"
    /\ \E ok \in BOOLEAN :
        main' = IF ok THEN [main EXCEPT !.pc = "main:103"] ELSE Exit(main, "setup")
    /\ UNCHANGED <<signed, sent, codecVars, threadVars, toolVars>>

\* lines 103-109
CheckAmounts ==
    /\ main.pc = "main:103"
    /\ main' = Amounts(main)
    /\ UNCHANGED <<signed, sent, codecVars, threadVars, toolVars>>

\* lines 111-112: nonce = w3.eth.get_transaction_count(account.address)
GetNonce ==
    /\ main.pc = "main:111"
    /\ main' = [main EXCEPT !.nonce = main.chain_nonce, !.pc = "main:115"]
    /\ UNCHANGED <<signed, sent, codecVars, threadVars, toolVars>>

\* lines 115-117
ComputeMirror ==
    /\ main.pc = "main:115"
    /\ main' = Mirror(main)
    /\ UNCHANGED <<signed, sent, codecVars, threadVars, toolVars>>

\* lines 129-135: the gas of the prefund, 120000 when the estimate raises
EstimateFundGas ==
    /\ main.pc = "main:129"
    /\ \E g \in EstimatedGas \cup {FUND_GAS_FALLBACK} :
        main' = [main EXCEPT !.fund_gas = g, !.pc = "main:137"]
    /\ UNCHANGED <<signed, sent, codecVars, threadVars, toolVars>>

\* lines 137-146: the prefund transaction; the library may refuse a
\* negative value
BuildFundTx ==
    /\ main.pc = "main:137"
    /\ \E built \in (IF main.value_wei < 0 THEN BOOLEAN ELSE {TRUE}) :
        main' = IF built
                THEN [main EXCEPT !.fund_tx = TransferTx(main.nonce, main.value_wei,
                                                         main.fund_gas),
                                  !.pc = "main:147"]
                ELSE Exit(main, "exception")
    /\ UNCHANGED <<signed, sent, codecVars, threadVars, toolVars>>

\* line 147
SignFundTx ==
    /\ main.pc = "main:147"
    /\ signed' = signed \cup {main.fund_tx}
    /\ main' = [main EXCEPT !.pc = "main:148"]
    /\ UNCHANGED <<sent, codecVars, threadVars, toolVars>>

\* line 148: the node accepts the transaction, or the call raises
SendFundTx ==
    /\ main.pc = "main:148"
    /\ \/ /\ sent' = Append(sent, main.fund_tx)
          /\ main' = [main EXCEPT !.pc = "main:150"]
       \/ /\ sent' = sent
          /\ main' = Exit(main, "exception")
    /\ UNCHANGED <<signed, codecVars, threadVars, toolVars>>

\* line 150: the receipt of the prefund, or a timeout
WaitFundReceipt ==
    /\ main.pc = "main:150"
    /\ \/ \E s \in ReceiptStatuses :
            main' = [main EXCEPT !.fund_receipt = [received |-> TRUE, status |-> s],
                                 !.pc = "main:151"]
       \/ main' = Exit(main, "exception")
    /\ UNCHANGED <<signed, sent, codecVars, threadVars, toolVars>>

\* lines 151-166: a prefund that did not succeed ends the run
CheckFundStatus ==
    /\ main.pc = "main:151"
    /\ LET fund_status == FundStatus(main.fund_receipt)
       IN  main' = IF ~fund_status
                   THEN Exit([main EXCEPT !.fund_status = fund_status], "Prefund failed")
                   ELSE [main EXCEPT !.fund_status = fund_status, !.pc = "main:167"]
    /\ UNCHANGED <<signed, sent, codecVars, threadVars, toolVars>>

\* lines 167-170: the contract's balance is printed, with a warning when
\* it is zero
ReadBalance ==
    /\ main.pc = "main:167"
    /\ \E balance \in {0, main.value_wei} :
        main' = [main EXCEPT !.balance_after_fund = balance, !.pc = "main:172"]
    /\ UNCHANGED <<signed, sent, codecVars, threadVars, toolVars>>

\* lines 172-180: the call and its gas, 200000 when the estimate raises;
\* the library may refuse a negative amount
EstimateRegisterGas ==
    /\ main.pc = "main:172"
    /\ \/ \E g \in EstimatedGas \cup {REGISTER_GAS_FALLBACK} :
            main' = [main EXCEPT !.gas_limit = g, !.pc = "main:182"]
       \/ /\ main.burn_wei < 0
          /\ main' = Exit(main, "exception")
    /\ UNCHANGED <<signed, sent, codecVars, threadVars, toolVars>>

\* lines 182-191: the register transaction, with the nonce after the
\* prefund's
BuildRegisterTx ==
    /\ main.pc = "main:182"
    /\ main' = [main EXCEPT !.tx = BurnedRegisterTx(main.nonce + 1, main.gas_limit,
                                                    main.burn_wei),
                            !.pc = "main:193"]
    /\ UNCHANGED <<signed, sent, codecVars, threadVars, toolVars>>

\* line 193
SignRegisterTx ==
    /\ main.pc = "main:193"
    /\ signed' = signed \cup {main.tx}
    /\ main' = [main EXCEPT !.pc = "main:194"]
    /\ UNCHANGED <<sent, codecVars, threadVars, toolVars>>

\* line 194: the node accepts the transaction, or the call raises; the
\* receipt is then waited for (line 197)
SendRegisterTx ==
    /\ main.pc = "main:194"
    /\ \/ /\ sent' = Append(sent, main.tx)
          /\ main' = [main EXCEPT !.pc = "main:197"]
       \/ /\ sent' = sent
          /\ main' = Exit(main, "exception")
    /\ UNCHANGED <<signed, codecVars, threadVars, toolVars>>

\* line 197: receipt = None
StartReceiptLoop ==
    /\ main.pc = "main:197"
    /\ main' = [main EXCEPT !.receipt = NoReceipt, !.pc = "main:198"]
    /\ UNCHANGED <<signed, sent, codecVars, threadVars, toolVars>>

\* line 198: for attempt in range(20), the next attempt or the end of the
\* loop
NextAttempt ==
    /\ main.pc = "main:198"
    /\ main' = IF main.attempt + 1 < RECEIPT_ATTEMPTS
               THEN [main EXCEPT !.attempt = main.attempt + 1, !.pc = "main:200"]
               ELSE [main EXCEPT !.pc = "main:210"]
    /\ UNCHANGED <<signed, sent, codecVars, threadVars, toolVars>>

\* lines 199-209: the receipt is asked for; it arrives and the loop is
\* left, or an HTTPError is raised, retried after three seconds when its
\* code is 429 and raised again otherwise, or another exception is raised
RequestReceipt ==
    /\ main.pc = "main:200"
    /\ LET asked == [main EXCEPT !.receipt_requests = main.receipt_requests + 1]
       IN  \/ \E s \in ReceiptStatuses :
                main' = [asked EXCEPT !.receipt = [received |-> TRUE, status |-> s],
                                      !.pc = "main:210"]
           \/ \E c \in HttpErrorCodes :
                main' = IF RetriesOn(c)
                        THEN [asked EXCEPT !.code = c, !.pc = "main:198"]
                        ELSE Exit([asked EXCEPT !.code = c], "exception")
           \/ main' = Exit(asked, "exception")
    /\ UNCHANGED <<signed, sent, codecVars, threadVars, toolVars>>

\* lines 210-211: no receipt after the loop ends the run
CheckReceipt ==
    /\ main.pc = "main:210"
    /\ main' = IF ~main.receipt.received
               THEN Exit(main, "Failed to fetch transaction receipt")
               ELSE [main EXCEPT !.pc = "main:212"]
    /\ UNCHANGED <<signed, sent, codecVars, threadVars, toolVars>>

\* lines 212-213: the status of the receipt is printed
PrintStatus ==
    /\ main.pc = "main:212"
    /\ main' = [main EXCEPT !.status_printed = IF main.receipt.status = 1 THEN "SUCCESS"
                                                ELSE "FAILED",
                            !.pc = "main:214"]
    /\ UNCHANGED <<signed, sent, codecVars, threadVars, toolVars>>

\* lines 214-239: the event, the gas and the receipt are printed; for a
\* failed transaction it is fetched again (line 226), which may raise
PrintReceipt ==
    /\ main.pc = "main:214"
    /\ \/ main' = [main EXCEPT !.pc = "done"]
       \/ /\ main.receipt.status # 1
          /\ main' = Exit(main, "exception")
    /\ UNCHANGED <<signed, sent, codecVars, threadVars, toolVars>>

NextMain ==
    \/ Setup
    \/ CheckAmounts
    \/ GetNonce
    \/ ComputeMirror
    \/ EstimateFundGas
    \/ BuildFundTx
    \/ SignFundTx
    \/ SendFundTx
    \/ WaitFundReceipt
    \/ CheckFundStatus
    \/ ReadBalance
    \/ EstimateRegisterGas
    \/ BuildRegisterTx
    \/ SignRegisterTx
    \/ SendRegisterTx
    \/ StartReceiptLoop
    \/ NextAttempt
    \/ RequestReceipt
    \/ CheckReceipt
    \/ PrintStatus
    \/ PrintReceipt

SpecMain == InitMain /\ [][NextMain]_vars

\* lines 197-239, from the register transaction sent to the end of main
ReceiptWait ==
    \/ StartReceiptLoop
    \/ NextAttempt
    \/ RequestReceipt
    \/ CheckReceipt
    \/ PrintStatus
    \/ PrintReceipt

\* once the register transaction is sent main keeps running: every call
\* it makes returns or raises (wait_for_transaction_receipt is given
\* timeout=300, time.sleep(3) returns)
SpecMainFair == SpecMain /\ WF_vars(ReceiptWait)

\* ------------------------------------------------------------------------
\* One run of unstake_and_burn.py
\* ------------------------------------------------------------------------

\* the contract argument: an address, or a text too short for one
ContractArguments == {<<"0", "x">> \o BytesHex(ZERO_ADDRESS), <<"0", "x", "0", "0">>}

InitUnstake ==
    /\ NoCodecRun /\ NoThreads /\ NoMainRun
    /\ batch = NoBatch
    /\ \E c \in ContractArguments, f \in ForcedGasPrices :
        unstake = [NoUnstake EXCEPT !.pc = "unstake:37", !.contract = c,
                                    !.force_gas_price_gwei = f]

\* lines 37-39: without a private key the run ends
UnstakeKey ==
    /\ unstake.pc = "unstake:37"
    /\ \E key \in BOOLEAN :
        unstake' = IF key THEN [unstake EXCEPT !.pc = "unstake:42"]
                   ELSE Exit(unstake, "Set PRIVATE_KEY env var or pass --private-key")
    /\ UNCHANGED <<mainVars, codecVars, threadVars, batch>>

\* lines 42-58: the connection and the wallet's balance; an exception, or a
\* balance of zero, ends the run
UnstakeConnect ==
    /\ unstake.pc = "unstake:42"
    /\ \/ unstake' = Exit(unstake, "Connection Error")
       \/ \E balance \in WalletBalances :
            unstake' = IF balance = 0
                       THEN Exit([unstake EXCEPT !.balance_wei = balance],
                                 "Wallet has zero balance")
                       ELSE [unstake EXCEPT !.balance_wei = balance, !.pc = "unstake:60"]
    /\ UNCHANGED <<mainVars, codecVars, threadVars, batch>>

\* lines 60-66: derived_coldkey = h160_to_ss58(args.contract)
UnstakeDeriveColdkey ==
    /\ unstake.pc = "unstake:60"
    /\ LET e == address_converter_h160_to_ss58(unstake.contract, 42)
       IN  unstake' = IF e.status # "ok" THEN Exit(unstake, e.status)
                      ELSE [unstake EXCEPT !.derived_coldkey = e.value,
                                           !.pc = "unstake:68"]
    /\ UNCHANGED <<mainVars, codecVars, threadVars, batch>>

\* lines 68-81: the stakes of the derived coldkey; an exception ends the
\* run, and so does an empty list
UnstakeFetchStakes ==
    /\ unstake.pc = "unstake:68"
    /\ \/ unstake' = Exit(unstake, "Failed to auto-fetch stakes")
       \/ \E s \in ValidatorStakes :
            LET u == [unstake EXCEPT !.hotkeys_bytes32 = s.hotkeys,
                                     !.amounts_tao = s.amounts]
            IN  unstake' = IF s.hotkeys = << >> THEN Exit(u, "No stakes found")
                           ELSE [u EXCEPT !.pc = "unstake:85"]
    /\ UNCHANGED <<mainVars, codecVars, threadVars, batch>>

\* lines 85-95: the contract, the amounts in rao and the call
UnstakeLoadContract ==
    /\ unstake.pc = "unstake:85"
    /\ \/ unstake' = Exit(unstake, "Failed to load contract")
       \/ unstake' = [unstake EXCEPT
                        !.amounts_rao = [k \in 1..Len(unstake.amounts_tao) |->
                                            ToRao(unstake.amounts_tao[k])],
                        !.pc = "unstake:97"]
    /\ UNCHANGED <<mainVars, codecVars, threadVars, batch>>

\* lines 97-127: the gas limit and the gas price.  Either the estimate and
\* the price are obtained and the balance must cover their product, or one
\* of the calls raises and the fallback values are taken
UnstakeEstimateGas ==
    /\ unstake.pc = "unstake:97"
    /\ \/ \E g \in UnstakeGasEstimates, p \in NodeGasPrices :
            unstake' = GasOrExit(EstimatedGasCost(unstake, g, p))
       \/ unstake' = FallbackGas(unstake)
    /\ UNCHANGED <<mainVars, codecVars, threadVars, batch>>

\* line 130: nonce = w3.eth.get_transaction_count(account.address, "pending")
UnstakeGetNonce ==
    /\ unstake.pc = "unstake:130"
    /\ \/ unstake' = Exit(unstake, "exception")
       \/ \E n \in AccountNonces :
            unstake' = [unstake EXCEPT !.nonce = n, !.pc = "unstake:132"]
    /\ UNCHANGED <<mainVars, codecVars, threadVars, batch>>

\* lines 132-139: fn.build_transaction
UnstakeBuildTx ==
    /\ unstake.pc = "unstake:132"
    /\ \/ unstake' = Exit(unstake, "exception")
       \/ unstake' = [unstake EXCEPT
                        !.tx = UnstakeAndBurnTx(unstake.hotkeys_bytes32, unstake.amounts_rao,
                                                unstake.nonce, unstake.gas_limit,
                                                unstake.gas_price),
                        !.pc = "unstake:142"]
    /\ UNCHANGED <<mainVars, codecVars, threadVars, batch>>

\* line 142: sign_transaction
UnstakeSignTx ==
    /\ unstake.pc = "unstake:142"
    /\ unstake' = [unstake EXCEPT !.pc = "unstake:144"]
    /\ signed' = signed \cup {unstake.tx}
    /\ UNCHANGED <<main, sent, codecVars, threadVars, batch>>

\* lines 144-149: send_raw_transaction hands the transaction to the node,
\* which accepts it or answers with an error
UnstakeSendTx ==
    /\ unstake.pc = "unstake:144"
    /\ \E accepted \in BOOLEAN :
        /\ unstake' = IF accepted
                      THEN [unstake EXCEPT !.submitted = TRUE, !.pc = "unstake:151"]
                      ELSE Exit([unstake EXCEPT !.submitted = TRUE], "Transaction failed")
        /\ sent' = IF accepted THEN Append(sent, unstake.tx) ELSE sent
    /\ UNCHANGED <<main, signed, codecVars, threadVars, batch>>

\* lines 151-167: the receipt and its status
UnstakeReceipt ==
    /\ unstake.pc = "unstake:151"
    /\ \/ unstake' = Exit(unstake, "exception")
       \/ unstake' = [unstake EXCEPT !.pc = "done"]
    /\ UNCHANGED <<mainVars, codecVars, threadVars, batch>>

NextUnstake ==
    \/ UnstakeKey
    \/ UnstakeConnect
    \/ UnstakeDeriveColdkey
    \/ UnstakeFetchStakes
    \/ UnstakeLoadContract
    \/ UnstakeEstimateGas
    \/ UnstakeGetNonce
    \/ UnstakeBuildTx
    \/ UnstakeSignTx
    \/ UnstakeSendTx
    \/ UnstakeReceipt

SpecUnstake == InitUnstake /\ [][NextUnstake]_vars

\* ------------------------------------------------------------------------
\* One run of unstake_and_burn_batch.py
\* ------------------------------------------------------------------------

InitBatch ==
    /\ NoCodecRun /\ NoThreads /\ NoMainRun
    /\ unstake = NoUnstake
    /\ \E hs \in BatchLists(HotkeyArguments), as \in BatchLists(AmountArguments) :
        batch = [NoBatch EXCEPT !.pc = "batch:37", !.hotkeys = hs, !.amounts = as]

\* lines 37-57: the key, the connection, the ABI and the contract; any of
\* them missing ends the run
BatchSetup ==
    /\ batch.pc = "batch:37"
    /\ \E ok \in BOOLEAN :
        batch' = IF ok THEN [batch EXCEPT !.pc = "batch:61", !.i = 1]
                 ELSE Exit(batch, "setup")
    /\ UNCHANGED <<mainVars, codecVars, threadVars, unstake>>

\* lines 61-66: the next hotkey of args.hotkeys, if there is one
BatchHotkey ==
    /\ batch.pc = "batch:61"
    /\ batch' = IF batch.i > Len(batch.hotkeys) THEN [batch EXCEPT !.pc = "batch:69"]
                ELSE BatchHotkeyStep(batch)
    /\ UNCHANGED <<mainVars, codecVars, threadVars, unstake>>

\* lines 69-72
BatchAmounts ==
    /\ batch.pc = "batch:69"
    /\ batch' = BatchAmountsStep(batch)
    /\ UNCHANGED <<mainVars, codecVars, threadVars, unstake>>

\* lines 75-81: the account and the call; the library may refuse the key
\* or the arguments
BatchPrepare ==
    /\ batch.pc = "batch:75"
    /\ \E ok \in BOOLEAN :
        batch' = IF ok THEN [batch EXCEPT !.pc = "batch:84"]
                 ELSE Exit(batch, "exception")
    /\ UNCHANGED <<mainVars, codecVars, threadVars, unstake>>

\* lines 84-88: the gas limit, 8000000 when the estimate raises
BatchEstimateGas ==
    /\ batch.pc = "batch:84"
    /\ \E g \in BatchGasEstimates \cup {BATCH_GAS_FALLBACK} :
        batch' = [batch EXCEPT !.gas_limit = g, !.pc = "batch:90"]
    /\ UNCHANGED <<mainVars, codecVars, threadVars, unstake>>

\* lines 90-99: fn.build_transaction with the node's nonce and gas price
BatchBuildTx ==
    /\ batch.pc = "batch:90"
    /\ \/ batch' = Exit(batch, "exception")
       \/ \E n \in AccountNonces, p \in NodeGasPrices :
            batch' = [batch EXCEPT
                        !.tx = RemoveStakeAndBurnBatchTx(batch.hotkeys_bytes32,
                                                         batch.amounts_rao, n,
                                                         batch.gas_limit, p),
                        !.pc = "batch:102"]
    /\ UNCHANGED <<mainVars, codecVars, threadVars, unstake>>

\* line 102: sign_transaction
BatchSignTx ==
    /\ batch.pc = "batch:102"
    /\ batch' = [batch EXCEPT !.pc = "batch:103"]
    /\ signed' = signed \cup {batch.tx}
    /\ UNCHANGED <<main, sent, codecVars, threadVars, unstake>>

\* line 103: send_raw_transaction; the node accepts the transaction or
\* answers with an error
BatchSendTx ==
    /\ batch.pc = "batch:103"
    /\ \E accepted \in BOOLEAN :
        /\ batch' = IF accepted THEN [batch EXCEPT !.pc = "batch:105"]
                    ELSE Exit(batch, "exception")
        /\ sent' = IF accepted THEN Append(sent, batch.tx) ELSE sent
    /\ UNCHANGED <<main, signed, codecVars, threadVars, unstake>>

\* lines 105-132: the receipt and its status
BatchReceipt ==
    /\ batch.pc = "batch:105"
    /\ \/ batch' = Exit(batch, "exception")
       \/ batch' = [batch EXCEPT !.pc = "done"]
    /\ UNCHANGED <<mainVars, codecVars, threadVars, unstake>>

NextBatch ==
    \/ BatchSetup
    \/ BatchHotkey
    \/ BatchAmounts
    \/ BatchPrepare
    \/ BatchEstimateGas
    \/ BatchBuildTx
    \/ BatchSignTx
    \/ BatchSendTx
    \/ BatchReceipt

SpecBatch == InitBatch /\ [][NextBatch]_vars

\* ------------------------------------------------------------------------
\* Properties
\* ------------------------------------------------------------------------

\* a Decode call has returned or failed
Decoded == pc = "decoded" /\ scenario \in {"encode", "decode"}

\* an Encode call has returned or failed
Encoded == scenario = "encode" /\ pc # "start"

\* the 32-byte domain hash of an address
DomainHash(addr) == blake2b(TAG_EVM \o addr, 32)

\* the first two bytes of the checksum hash of "SS58PRE" || bytes
ChecksumOf(bytes) == SubSeq(blake2b(TAG_SS58PRE \o bytes, 64), 1, 2)

AlphabetOnly(s) == \A i \in 1..Len(s) : InAlphabet(s[i])

\* s starts with exactly k times the element x
StartsWithExactly(s, k, x) ==
    /\ Len(s) >= k
    /\ \A i \in 1..k : s[i] = x
    /\ (Len(s) > k => s[k + 1] # x)

\* C1. Round trip: an address encoded from 20 address bytes with a format
\* in {0, 1, 41, 42, 63} decodes successfully, to the domain hash of the
\* address bytes and to the format it was encoded with.
C1_RoundTrip ==
    (Decoded /\ origin.kind = "encoded" /\ Len(enc.addr_bytes) = 20
        /\ ss58_format \in {0, 1, 41, 42, 63})
    => /\ dec.status = "ok" /\ dec.returned
       /\ dec.pubkey = DomainHash(enc.addr_bytes)
       /\ Len(dec.pubkey) = 32
       /\ dec.format_byte = ss58_format

\* the round trip of format 0 with a digest that starts with zero bytes
C1_Witness ==
    /\ Decoded /\ origin.kind = "encoded" /\ dec.status = "ok"
    /\ ss58_format = 0 /\ enc.addr_bytes = ADDRESS_Z4
    /\ SubSeq(dec.pubkey, 1, 4) = <<0, 0, 0, 0>>

\* C2. Leading-zero fidelity: b58encode(d) starts with exactly k '1'
\* characters for the k leading zero bytes of d, and b58decode gives d back,
\* byte for byte.
C2_LeadingZeroFidelity ==
    (scenario = "base58" /\ pc # "start")
    => /\ \E k \in 0..Len(data) :
            /\ StartsWithExactly(data, k, 0)
            /\ StartsWithExactly(b58, k, "1")
       /\ pc = "decoded" => (back.ok /\ back.bytes = data /\ Len(back.bytes) = Len(data))

\* 35 bytes with two leading zero bytes, and an all-zero string, came back
C2_Witness ==
    /\ scenario = "base58" /\ pc = "decoded" /\ back.ok
    /\ \/ Len(data) = 35 /\ StartsWithExactly(data, 2, 0) /\ StartsWithExactly(b58, 2, "1")
       \/ data = <<0, 0, 0>> /\ b58 = <<"1", "1", "1">>

\* C3. Decode fails closed: a payload is returned only for a text that is
\* alphabet-only and is the base-58 text of 35 bytes: a first byte below
\* 64, the 32 bytes returned and the two checksum bytes of those 33; every
\* other call fails, returns nothing and prints nothing.
C3_DecodeFailsClosed ==
    Decoded
    => /\ dec.returned <=> dec.status = "ok"
       /\ dec.returned =>
            /\ AlphabetOnly(ss58)
            /\ dec.format_byte \in 0..63
            /\ Len(dec.pubkey) = 32
            /\ LET front == <<dec.format_byte>> \o dec.pubkey
               IN  /\ ss58 = b58encode(front \o ChecksumOf(front))
                   /\ Len(front \o ChecksumOf(front)) = 35
       /\ ~dec.returned =>
            /\ dec.pubkey = << >> /\ dec.printed = << >>
            /\ dec.status \in {"InvalidCharacter", "TooShort", "UnsupportedFormat",
                               "ChecksumMismatch", "InvalidPayloadLength"}

\* a 35-byte text with a wrong checksum was refused by the printing decoder,
\* with nothing returned or printed
C3_Witness ==
    /\ Decoded /\ decoder = "decode_ss58_hotkey" /\ origin.kind = "tampered"
    /\ AlphabetOnly(ss58) /\ Len(hotkey_b58decode(ss58).bytes) = 35
    /\ dec.status = "ChecksumMismatch" /\ ~dec.returned /\ dec.printed = << >>

\* the checksum of a tampered text matches all the same
ChecksumCoincidence(s) ==
    LET r == b58decode(s)
        n == Len(r.bytes)
    IN  /\ r.ok /\ n >= 2
        /\ SubSeq(r.bytes, n - 1, n) = ChecksumOf(SubSeq(r.bytes, 1, n - 2))

\* an address encoded with a format below 64 was decoded with one
\* character replaced, and not to a matching checksum
TamperedCase ==
    /\ Decoded /\ origin.kind = "tampered" /\ ss58_format < 64
    /\ decoder = "decode_ss58_address"
    /\ ~ChecksumCoincidence(ss58)

\* C4 as stated. Checksum sensitivity: a valid address with one character
\* replaced fails to decode, with ChecksumMismatch or InvalidCharacter.
C4_ChecksumSensitivity ==
    \/ dec.status \in {"ChecksumMismatch", "InvalidCharacter"}
    \/ ~TamperedCase

\* C4 as amended. A valid address with one character replaced fails to
\* decode, with InvalidCharacter, TooShort, UnsupportedFormat or
\* ChecksumMismatch: the length and the format byte of the changed text are
\* checked before its checksum.
C4_TamperedAddressFails ==
    \/ dec.status \in {"InvalidCharacter", "TooShort", "UnsupportedFormat", "ChecksumMismatch"}
    \/ ~TamperedCase

\* a replaced first character raised the format byte to 64 or more
C4_Witness ==
    /\ TamperedCase /\ origin.pos = 1 /\ ss58_format = 42
    /\ dec.status = "UnsupportedFormat"

\* C5 as stated. Encode rejects every format >= 16384 with
\* UnsupportedFormat and returns no address.
C5_RejectsLargeFormat ==
    (Encoded /\ h160 \in WellFormedAddresses /\ ss58_format >= 16384)
    => enc.status = "UnsupportedFormat" /\ enc.value = << >>

\* the hex body of s (after the 0x prefix) is hex digits that decode to a
\* number of bytes other than 20
HexBodyOfWrongLength(s) ==
    LET r == BytesFromHex(RemovePrefix(StrLower(s), <<"0", "x">>))
    IN  r.ok /\ Len(r.bytes) # 20

\* C6 as stated. Encode fails with InvalidAddressLength, and returns no
\* address, whenever the hex body after the 0x prefix decodes to a number
\* of bytes other than 20; in both implementations.
C6_RejectsWrongLength ==
    (Encoded /\ HexBodyOfWrongLength(h160))
    => enc.status = "InvalidAddressLength" /\ enc.value = << >>

\* C7. Format prefix framing: a format in 0..63 gives the single prefix
\* byte f and 33 bytes before the checksum; a format in 64..16383 gives two
\* bytes, the low byte of f with bit 6 set and then f >> 8, and 34 bytes
\* before the checksum.
C7_PrefixFraming ==
    (Encoded /\ enc.status = "ok")
    => /\ ss58_format \in 0..63 =>
            /\ enc.prefix = <<ss58_format>>
            /\ Len(enc.payload) = 33
       /\ ss58_format \in 64..16383 =>
            /\ Len(enc.prefix) = 2
            /\ enc.prefix[1] \in {ss58_format % 256, (ss58_format % 256) + 64}
            /\ (enc.prefix[1] \div 64) % 2 = 1
            /\ enc.prefix[2] = ss58_format \div 256
            /\ Len(enc.payload) = 34
       /\ SubSeq(enc.payload, 1, Len(enc.prefix)) = enc.prefix

\* format 256 was framed as the bytes 0x40, 0x01
C7_Witness ==
    /\ Encoded /\ enc.status = "ok" /\ ss58_format = 256
    /\ enc.prefix = <<64, 1>> /\ Len(enc.payload) = 34

\* C8. Asymmetry: Decode fails with UnsupportedFormat for every text whose
\* decoded bytes are 34 or more and start with a byte >= 64, whatever the
\* checksum; so does the decoding of every address encoded from 20 address
\* bytes with a format in 64..16383.
C8_TwoBytePrefixRefused ==
    Decoded
    => /\ (origin.kind = "encoded" /\ Len(enc.addr_bytes) = 20
            /\ ss58_format \in 64..16383)
          => dec.status = "UnsupportedFormat"
       /\ \/ dec.status = "UnsupportedFormat" /\ ~dec.returned
          \/ LET r == b58decode(ss58)
             IN  ~(r.ok /\ Len(r.bytes) >= 34 /\ r.bytes[1] >= 64)

\* a two-byte-prefix address with its last character replaced (a wrong
\* checksum) was refused for its format
C8_Witness ==
    /\ Decoded /\ origin.kind = "tampered" /\ origin.pos = Len(ss58)
    /\ ss58_format = 64 /\ AlphabetOnly(ss58) /\ ~ChecksumCoincidence(ss58)
    /\ dec.status = "UnsupportedFormat"

\* C9. Decode fails with TooShort for every alphabet-only text whose
\* decoded bytes are fewer than 34, and so for every alphabet-only text of
\* at most 10 characters.
C9_TooShort ==
    (Decoded /\ AlphabetOnly(ss58))
    => /\ dec.status = "TooShort" \/ Len(b58decode(ss58).bytes) >= 34
       /\ dec.status = "TooShort" \/ Len(ss58) > 10

\* ten '1' characters, ten zero bytes, were refused as too short
C9_Witness ==
    /\ Decoded /\ ss58 = Repeat(<<"1">>, 10) /\ dec.status = "TooShort"

\* C10. Decode fails with InvalidCharacter for every text that holds a
\* character outside the alphabet, wherever it is and whatever else is
\* wrong with the text.
C10_InvalidCharacter ==
    (Decoded /\ \E i \in 1..Len(ss58) : ss58[i] \in {"0", "O", "I", "l"} \/ ~InAlphabet(ss58[i]))
    => dec.status = "InvalidCharacter" /\ ~dec.returned

\* a two-byte-prefix address with a '0' in last place, and a short text
\* with an 'l' after valid characters, were refused for the character
C10_Witness ==
    /\ Decoded /\ dec.status = "InvalidCharacter"
    /\ \/ origin.kind = "tampered" /\ origin.char = "0" /\ origin.pos = Len(ss58)
           /\ ss58_format = 16383
       \/ ss58 = <<"z", "1", "l">>

\* C13 as stated. A call changes nothing observable apart from returning
\* or failing: no Decode implementation writes any output.
C13_NoSideEffect ==
    Decoded => dec.printed = << >>

\* the checksum carried by the decoded bytes matches the one computed over
\* all the bytes before it
ChecksumMatches(bytes) ==
    SubSeq(bytes, Len(bytes) - 1, Len(bytes)) = ChecksumOf(SubSeq(bytes, 1, Len(bytes) - 2))

\* C14. Decode reports the first failing check in the order
\* InvalidCharacter, TooShort (fewer than 34 decoded bytes),
\* UnsupportedFormat (first byte >= 64), ChecksumMismatch,
\* InvalidPayloadLength: each failure is reported exactly when its own test
\* fails and every earlier one passed, so a wrong checksum on a decoded
\* length other than 35 is a ChecksumMismatch, and InvalidPayloadLength is
\* reported only with a matching checksum (34 decoded bytes included).
C14_CheckOrder ==
    Decoded =>
        /\ dec.status = "InvalidCharacter" <=> ~AlphabetOnly(ss58)
        /\ dec.status # "InvalidCharacter" =>
            LET bytes == b58decode(ss58).bytes
                n     == Len(bytes)
            IN  /\ dec.status = "TooShort" <=> n < 34
                /\ dec.status = "UnsupportedFormat" <=> (n >= 34 /\ bytes[1] >= 64)
                /\ dec.status = "ChecksumMismatch"
                     <=> (n >= 34 /\ bytes[1] < 64 /\ ~ChecksumMatches(bytes))
                /\ dec.status = "InvalidPayloadLength"
                     <=> (n >= 34 /\ bytes[1] < 64 /\ ChecksumMatches(bytes) /\ n # 35)
                /\ dec.status = "ok"
                     <=> (n = 35 /\ bytes[1] < 64 /\ ChecksumMatches(bytes))

\* 34 decoded bytes with a matching checksum around a 31-byte payload were
\* refused for the payload length
C14_Witness ==
    /\ Decoded /\ decoder = "decode_ss58_address"
    /\ dec.status = "InvalidPayloadLength"
    /\ Len(b58decode(ss58).bytes) = 34
    /\ ChecksumMatches(b58decode(ss58).bytes)

\* the Encode implementation other than name
OtherEncoder(name) == CHOOSE e \in Encoders : e # name

\* the Decode implementation other than name
OtherDecoder(name) == CHOOSE d \in Decoders : d # name

\* C15 as stated. The two Encode implementations have the same outcome on
\* every input: the same string, or the same failure.
C15_EncodersAgree ==
    Encoded =>
        LET other == RunEncoder(OtherEncoder(encoder), h160, ss58_format)
        IN  enc.status = other.status /\ enc.value = other.value

\* C16. The two Decode implementations have the same outcome on every
\* text: the same format byte and 32-byte payload on success, the same
\* failure on failure.
C16_DecodersAgree ==
    Decoded =>
        LET other == RunDecoder(OtherDecoder(decoder), ss58)
        IN  /\ dec.status = other.status
            /\ dec.returned = other.returned
            /\ dec.format_byte = other.format_byte
            /\ dec.pubkey = other.pubkey

\* decode_ss58_hotkey returned the payload of an encoded address that
\* starts with a '1' character
C16_Witness ==
    /\ Decoded /\ decoder = "decode_ss58_hotkey"
    /\ origin.kind = "encoded" /\ ss58[1] = "1"
    /\ dec.status = "ok" /\ Len(dec.pubkey) = 32

\* C17. Base-58 text is canonical: the bytes b58decode returns for a text
\* over the alphabet encode back to that very text, leading '1' characters
\* and the empty text included.
C17_CanonicalText ==
    (scenario = "text" /\ pc # "start")
    => /\ back.ok <=> AlphabetOnly(ss58)
       /\ pc = "reencoded" => b58 = ss58

\* the texts "1", "11z" and a 46-character one were returned unchanged
C17_Witness ==
    /\ scenario = "text" /\ pc = "reencoded" /\ b58 = ss58
    /\ ss58 \in {<<"1">>, <<"1", "1", "z">>, Repeat(<<"z">>, 46)}

\* C18 as stated. Two distinct formats in 0..16383 give different prefix
\* bytes and different addresses for the same 20-byte address.
C18_FormatInjective ==
    (Encoded /\ enc.status = "ok" /\ h160 \in WellFormedAddresses /\ ss58_format <= 16383)
    => \A f2 \in Formats :
        (f2 <= 16383 /\ f2 # ss58_format)
        => /\ Ss58Prefix(f2) # enc.prefix
           /\ RunEncoder(encoder, h160, f2).value # enc.value

\* thread t's call has returned or failed
Finished(t) == frames[t].pc = "done"

\* what thread t's call returned, or how it failed
Outcome(t) == [status |-> frames[t].status, value |-> frames[t].value]

\* the outcome of the call c made alone
SoloOutcome(c) ==
    IF c.fn = "h160_to_ss58"
    THEN LET r == h160_to_ss58(c.h160, c.ss58_format)
         IN  [status |-> r.status, value |-> r.value]
    ELSE LET r == decode_ss58_address(c.ss58)
         IN  [status |-> r.status, value |-> r.pubkey]

\* C11. Determinism: two Encode calls made with the same address and
\* format end with the same outcome (the same string, or the same
\* failure), whatever their threads computed before them and however the
\* lines of other calls fall between theirs.
C11_Determinism ==
    \A t, u \in Threads :
        (Finished(t) /\ Finished(u) /\ frames[t].call.fn = "h160_to_ss58"
            /\ frames[t].call = frames[u].call)
        => Outcome(t) = Outcome(u)

\* both threads encoded the same address, one as its first call and the
\* other after an earlier call, and returned the same string
C11_Witness ==
    /\ Finished("t1") /\ Finished("t2")
    /\ frames["t1"].call = EncodeCall(ADDRESS_Z1_TEXT, 0)
    /\ frames["t2"].call = frames["t1"].call
    /\ ncalls["t1"] = 1 /\ ncalls["t2"] = 2
    /\ frames["t1"].status = "ok" /\ Outcome("t1") = Outcome("t2")

\* a step changes the frame of one thread at most
OwnFrameOnly ==
    \A t, u \in Threads :
        (frames'[t] # frames[t] /\ u # t) => frames'[u] = frames[u]

\* C12. Concurrent independence: however the lines of the threads' Encode
\* and Decode calls are interleaved, each call ends with the outcome it
\* has when made alone on its arguments, and no step of a call changes
\* anything but its own frame.
C12_ConcurrentIndependence ==
    /\ [](\A t \in Threads : Finished(t) => Outcome(t) = SoloOutcome(frames[t].call))
    /\ [][OwnFrameOnly]_vars

\* an Encode made by one thread and a Decode made by the other both
\* returned
C12_Witness ==
    /\ Finished("t1") /\ Finished("t2")
    /\ frames["t1"].call.fn = "h160_to_ss58" /\ frames["t1"].status = "ok"
    /\ frames["t2"].call.fn = "decode_ss58_address" /\ frames["t2"].status = "ok"
    /\ Len(frames["t2"].value) = 32

\* the positions in sent of the prefund and of the register transaction
PrefundsSent == {i \in 1..Len(sent) : sent[i].fn = "transfer"}
RegistersSent == {i \in 1..Len(sent) : sent[i].fn = "burnedRegisterNeuron"}

\* the register transaction was signed
RegisterSigned == \E t \in signed : t.fn = "burnedRegisterNeuron"

\* C19. The register transaction is sent only after the prefund was sent
\* and its receipt reported status 1, with the nonce that follows the
\* prefund's; after a receipt with any other status main ends with
\* "Prefund failed" as its next step, and the register transaction is
\* neither signed nor sent.
C19_RegisterAfterPrefund ==
    /\ \A i \in RegistersSent :
        /\ main.fund_receipt.received /\ main.fund_receipt.status = 1
        /\ \E j \in PrefundsSent : j < i /\ sent[i].nonce = sent[j].nonce + 1
    /\ RegisterSigned => (main.fund_receipt.received /\ main.fund_receipt.status = 1)
    /\ (main.fund_receipt.received /\ main.fund_receipt.status # 1)
        => /\ main.pc \in {"main:151", "exit"}
           /\ main.pc = "exit" => main.exit = "Prefund failed"
           /\ RegistersSent = {} /\ ~RegisterSigned

\* the prefund went with nonce 7 and succeeded, and the register
\* transaction went with nonce 8
C19_Witness ==
    /\ main.pc = "main:197" /\ Len(sent) = 2
    /\ sent[1].fn = "transfer" /\ sent[1].nonce = 7
    /\ main.fund_receipt.status = 1
    /\ sent[2].fn = "burnedRegisterNeuron" /\ sent[2].nonce = 8

\* C20 as stated. No transaction is sent unless 0 < burn_wei <= value_wei
\* (here for the runs that prefund a positive value).
C20_SentOnlyWithPositiveBurn ==
    (sent # << >> /\ main.value_wei > 0)
    => (0 < main.burn_wei /\ main.burn_wei <= main.value_wei)

\* main has ended
MainEnded == main.pc \in {"exit", "done"}

\* the wait for the register receipt has begun
InReceiptLoop == main.attempt >= 0

\* C21. The wait for the register receipt always ends.  The receipt is
\* asked for at most 20 times; a further request follows an HTTP error of
\* code 429 only, and any other HTTP error ends the run at once; after 20
\* errors of code 429 the run ends with a failure and prints no status; a
\* receipt that arrives ends the loop and its status is the one printed.
C21_ReceiptWaitEnds ==
    /\ [](/\ main.receipt_requests <= RECEIPT_ATTEMPTS
          /\ main.attempt < RECEIPT_ATTEMPTS
          /\ (main.pc = "main:200" /\ main.attempt >= 1) => main.code = 429
          /\ main.code \notin {0, 429}
                => (main.pc = "exit" /\ main.exit = "exception"
                    /\ main.status_printed = "")
          /\ (main.receipt_requests = RECEIPT_ATTEMPTS /\ ~main.receipt.received)
                => /\ main.pc \in {"main:198", "main:210", "exit"}
                   /\ main.status_printed = ""
          /\ main.exit = "Failed to fetch transaction receipt"
                => /\ main.receipt_requests = RECEIPT_ATTEMPTS /\ main.code = 429
                   /\ ~main.receipt.received /\ main.status_printed = ""
          /\ main.receipt.received
                => /\ main.pc \in {"main:210", "main:212", "main:214", "done", "exit"}
                   /\ main.receipt_requests = main.attempt + 1
          /\ main.status_printed # ""
                => /\ main.receipt.received
                   /\ main.status_printed = "SUCCESS" <=> main.receipt.status = 1)
    /\ [][/\ (main.receipt.received
                => (main'.receipt = main.receipt
                    /\ main'.receipt_requests = main.receipt_requests))
           /\ ((main.pc = "main:198" /\ main.receipt_requests = RECEIPT_ATTEMPTS)
                => main'.pc = "main:210")
           /\ ((main.pc = "main:210" /\ ~main.receipt.received)
                => main'.exit = "Failed to fetch transaction receipt")]_vars
    /\ (main.pc = "main:197") ~> MainEnded

\* twenty requests were answered by an error of code 429 and main ended
\* without a receipt and without printing a status
C21_Witness ==
    /\ main.pc = "exit" /\ main.exit = "Failed to fetch transaction receipt"
    /\ main.receipt_requests = RECEIPT_ATTEMPTS /\ main.attempt = RECEIPT_ATTEMPTS - 1
    /\ main.code = 429 /\ main.status_printed = ""

\* C22: the unstakeAndBurn transaction is handed to the node only if the
\* balance read at start is not zero, at least one validator stake was
\* found, and the balance is at least the gas limit times the gas price put
\* in the transaction, whether these were estimated or are the fallback
C22_SentOnlyWhenAffordable ==
    unstake.submitted =>
        /\ unstake.balance_wei # 0
        /\ unstake.hotkeys_bytes32 # << >>
        /\ unstake.balance_wei >= unstake.tx.gas * unstake.tx.gasPrice

\* the bytes each hotkey argument stands for: its hexadecimal digits, two
\* to a byte, after an optional 0x
HotkeyTable ==
    [h \in HotkeyArguments |-> BytesFromHex(RemovePrefix(StrLower(h), <<"0", "x">>))]

HotkeyDecodes(h) == HotkeyTable[h].ok /\ Len(HotkeyTable[h].bytes) = HOTKEY_BYTES

HotkeyBytes(h) == HotkeyTable[h].bytes

\* the batch arguments can be sent: every hotkey is 32 bytes and there are
\* as many amounts as hotkeys
BatchArgumentsValid ==
    /\ \A k \in 1..Len(batch.hotkeys) : HotkeyDecodes(batch.hotkeys[k])
    /\ Len(batch.hotkeys) = Len(batch.amounts)

\* a removeStakeAndBurnBatch transaction that pairs the i-th amount, in
\* rao, with the i-th hotkey, in the order of the command line
PairsInOrder(tx) ==
    /\ tx.fn = "removeStakeAndBurnBatch"
    /\ Len(tx.hotkeys) = Len(batch.hotkeys)
    /\ Len(tx.amounts) = Len(batch.hotkeys)
    /\ \A k \in 1..Len(batch.hotkeys) :
        /\ tx.hotkeys[k] = HotkeyBytes(batch.hotkeys[k])
        /\ tx.amounts[k] = ToRao(batch.amounts[k])

\* C23: a removeStakeAndBurnBatch transaction is signed or sent only if
\* every given hotkey decodes to exactly 32 bytes and there are as many
\* amounts as hotkeys, and it then pairs the i-th amount with the i-th
\* hotkey in the given order; with other arguments the tool has exited, or
\* will, with nothing signed and nothing sent
C23_BatchSentOnlyWhenValid ==
    /\ (signed # {} \/ sent # << >> \/ batch.pc \in {"batch:75", "batch:84", "batch:90",
                                                    "batch:102", "batch:103", "batch:105",
                                                    "done"})
            => BatchArgumentsValid
    /\ \A tx \in signed : PairsInOrder(tx)
    /\ \A k \in 1..Len(sent) : PairsInOrder(sent[k]) /\ sent[k] \in signed
    /\ (~BatchArgumentsValid /\ batch.pc = "exit") => (signed = {} /\ sent = << >>)

\* a transaction with two different hotkeys, given in upper case and
\* without a prefix, and two different amounts has been sent
C23_Witness ==
    /\ Len(sent) = 1
    /\ Len(batch.hotkeys) = 2
    /\ batch.hotkeys[1] # batch.hotkeys[2]
    /\ batch.amounts[1] # batch.amounts[2]
    /\ sent[1].hotkeys[1] # sent[1].hotkeys[2]
    /\ sent[1].amounts[1] # sent[1].amounts[2]
    /\ PairsInOrder(sent[1])

====
